---- MODULE Spec2Model ----
(***************************************************************************)
(* A model of pygitlet (src/pygitlet/commands.py): the object store, the   *)
(* branch registry, the staging area, the history engine, checkout/reset,  *)
(* the merge engine and the remote synchronisation commands.               *)
(*                                                                         *)
(* Every command of commands.py is a pure operator over a repository       *)
(* record S (the contents of one .gitlet folder plus its working           *)
(* directory) that returns the repository after the command and the        *)
(* message the command raised or printed; an action applies one command    *)
(* to one of the repositories.                                             *)
(***************************************************************************)
EXTENDS Integers, Sequences, FiniteSets, TLC

VARIABLES
    commits,         \* [repo -> [commit hash -> Commit]]: the files of .gitlet/commits
    blobs,           \* [repo -> [file name -> Blob]]: the files of .gitlet/blobs
    stage,           \* [repo -> [path -> Blob]]: the files of .gitlet/stage
    branches,        \* [repo -> [branch name -> Branch]]: the branch files of .gitlet/branches
    current_branch,  \* [repo -> branch name]: the target of the .current-branch symlink
    remotes,         \* [repo -> [remote name -> repo]]: the remote folders and their .gitlet links
    wd,              \* [repo -> [path -> contents]]: the files of the working directory
    objects,         \* [timestamp -> Commit]: the Commit values built so far
    now              \* the wall clock: the timestamp of the next commit

vars == <<commits, blobs, stage, branches, current_branch, remotes, wd,
          objects, now>>

-----------------------------------------------------------------------------
(* Bounds of the model.                                                    *)

\* The number of commits the clock hands a timestamp to (the root excluded).
MaxCommits == 4
\* The same, for the specification of the staging area.
MaxCommitsStage == 2
\* The same, for the specification of checkout, reset and merge.
MaxCommitsSync == 3
\* The same, for the specification of deep histories.
MaxCommitsDeep == 4
\* The same, for the specification of two repositories.
MaxCommitsRemote == 2
\* The same, for the specification of a remote that works on pushed branches.
MaxCommitsShare == 2
\* The same, for the specification of the commit store; a merge may build
\* one commit more.
MaxCommitsStore == 2
\* The same, for the specification of switching between snapshots.
MaxCommitsSwitch == 2
\* The same, for the specification of three-way merges.
MaxCommitsMerge == 3

Repos == {"local", "remote"}

-----------------------------------------------------------------------------
(* Finite maps (files of a folder, keyed by name).                         *)

EmptyMap == [k \in {} |-> 0]

Put(f, k, v) == [x \in (DOMAIN f) \cup {k} |-> IF x = k THEN v ELSE f[x]]

Drop(f, k) == [x \in (DOMAIN f) \ {k} |-> f[x]]

SeqElems(s) == {s[i] : i \in 1..Len(s)}

Reverse(s) == [i \in 1..Len(s) |-> s[Len(s) + 1 - i]]

\* Every enumeration of a finite set as a sequence (the order of iterdir()).
Orders(set) ==
    {s \in [1..Cardinality(set) -> set] : \A x \in set : \E i \in DOMAIN s : s[i] = x}

-----------------------------------------------------------------------------
(* The data model.                                                         *)

ADDED == "added"
DELETED == "deleted"
MODIFIED == "modified"

\* SHA-1 of a string: an injective map from contents to digests.
hash_contents(contents) == "sha1:" \o contents

Blob(name, contents, diff) == [name |-> name, contents |-> contents, diff |-> diff]

BlobHash(blob) == hash_contents(blob.contents)

\* A commit; parents are named by timestamp and looked up in objects.
\* file_blob_map is a frozendict: a sequence of blobs with distinct names, in
\* insertion order.
Commit(timestamp, message, parents, file_blob_map) ==
    [timestamp |-> timestamp, message |-> message, parents |-> parents,
     file_blob_map |-> file_blob_map]

\* SHA-1 of the pickled commit.  Every commit is built with a timestamp of
\* its own, so the timestamp stands for the digest.
CommitHash(c) == c.timestamp

is_merge_commit(c) == Len(c.parents) > 1

NoRemote == ""

Branch(local_name, commit_id, is_current, remote) ==
    [local_name |-> local_name, commit |-> commit_id, is_current |-> is_current,
     remote |-> remote]

BranchName(b) ==
    IF b.remote = NoRemote THEN b.local_name ELSE b.remote \o "/" \o b.local_name

\* frozendict operations.
MapKeys(m) == {m[i].name : i \in 1..Len(m)}

MapHas(m, path) == path \in MapKeys(m)

MapGet(m, path) == m[CHOOSE i \in 1..Len(m) : m[i].name = path]

MapSet(m, blob) ==
    IF MapHas(m, blob.name)
    THEN [i \in 1..Len(m) |-> IF m[i].name = blob.name THEN blob ELSE m[i]]
    ELSE Append(m, blob)

MapDelete(m, path) == SelectSeq(m, LAMBDA e : e.name # path)

-----------------------------------------------------------------------------
(* Results of a command: the repository afterwards and the message.        *)

Ok == ""
FileNotFoundError == "FileNotFoundError"
KeyError == "KeyError"
IndexError == "IndexError"

Result(S, msg) == [S |-> S, msg |-> msg]

\* The repository record of repo r.
Repo(r) ==
    [commits |-> commits[r], blobs |-> blobs[r], stage |-> stage[r],
     branches |-> branches[r], current_branch |-> current_branch[r],
     remotes |-> remotes[r], wd |-> wd[r], objects |-> objects]

\* Repo r becomes S.
Store(r, S) ==
    /\ commits' = [commits EXCEPT ![r] = S.commits]
    /\ blobs' = [blobs EXCEPT ![r] = S.blobs]
    /\ stage' = [stage EXCEPT ![r] = S.stage]
    /\ branches' = [branches EXCEPT ![r] = S.branches]
    /\ current_branch' = [current_branch EXCEPT ![r] = S.current_branch]
    /\ remotes' = [remotes EXCEPT ![r] = S.remotes]
    /\ wd' = [wd EXCEPT ![r] = S.wd]
    /\ objects' = S.objects
    /\ now' = IF S.objects = objects THEN now ELSE now + 1

-----------------------------------------------------------------------------
(* The branch registry.                                                    *)

write_branch(S, b) ==
    [S EXCEPT !.branches = Put(S.branches, BranchName(b), b),
              !.current_branch = IF b.is_current THEN BranchName(b)
                                 ELSE S.current_branch]

\* The .current-branch symlink resolves to a branch file.
HasCurrent(S) == S.current_branch \in DOMAIN S.branches

get_current_branch(S) == S.branches[S.current_branch]
\* set_branch_commit moving, with the branch, every branch that shares its
\* tip.
set_branch_commit_shared(S, b, commit_id) ==
    LET moved == [n \in DOMAIN S.branches |->
                      IF S.branches[n].commit = b.commit
                      THEN [S.branches[n] EXCEPT !.commit = commit_id]
                      ELSE S.branches[n]]
    IN write_branch([S EXCEPT !.branches = moved], [b EXCEPT !.commit = commit_id])

set_branch_commit(S, b, commit_id) ==
    write_branch(S, [b EXCEPT !.commit = commit_id])

CurrentCommit(S) == S.objects[get_current_branch(S).commit]

-----------------------------------------------------------------------------
(* init.                                                                   *)

init_commit == Commit(0, "initial commit", <<>>, <<>>)

init ==
    write_branch(
        [commits |-> Put(EmptyMap, CommitHash(init_commit), init_commit),
         blobs |-> EmptyMap, stage |-> EmptyMap, branches |-> EmptyMap,
         current_branch |-> "", remotes |-> EmptyMap, wd |-> EmptyMap,
         objects |-> Put(EmptyMap, 0, init_commit)],
        Branch("main", 0, TRUE, NoRemote))

-----------------------------------------------------------------------------
(* The staging area.                                                       *)
\* add that leaves a staged removal as it is.
add_keep_deleted(S, file_path) ==
    IF file_path \in DOMAIN S.stage
    THEN Result(S, Ok)
    ELSE IF file_path \notin DOMAIN S.wd
    THEN Result(S, "File does not exist.")
    ELSE IF ~HasCurrent(S)
    THEN Result(S, FileNotFoundError)
    ELSE LET contents == S.wd[file_path]
             fbm == CurrentCommit(S).file_blob_map
             blob == Blob(file_path, contents,
                          IF MapHas(fbm, file_path) THEN MODIFIED ELSE ADDED)
         IN IF MapHas(fbm, file_path)
               /\ BlobHash(MapGet(fbm, file_path)) = BlobHash(blob)
            THEN Result([S EXCEPT !.stage = Drop(S.stage, file_path)], Ok)
            ELSE Result([S EXCEPT !.stage = Put(S.stage, file_path, blob)], Ok)

add(S, file_path) ==
    IF file_path \in DOMAIN S.stage
    THEN IF S.stage[file_path].diff = DELETED
         THEN Result([S EXCEPT !.stage[file_path].diff = ADDED], Ok)
         ELSE Result(S, Ok)
    ELSE IF file_path \notin DOMAIN S.wd
    THEN Result(S, "File does not exist.")
    ELSE IF ~HasCurrent(S)
    THEN Result(S, FileNotFoundError)
    ELSE LET contents == S.wd[file_path]
             fbm == CurrentCommit(S).file_blob_map
             blob == Blob(file_path, contents,
                          IF MapHas(fbm, file_path) THEN MODIFIED ELSE ADDED)
         IN IF MapHas(fbm, file_path)
               /\ BlobHash(MapGet(fbm, file_path)) = BlobHash(blob)
            THEN Result([S EXCEPT !.stage = Drop(S.stage, file_path)], Ok)
            ELSE Result([S EXCEPT !.stage = Put(S.stage, file_path, blob)], Ok)
\* remove that stages the removal with the contents of the entry it found
\* staged, when there is one, instead of the working file's.
remove_staged_contents(S, file_path) ==
    IF ~HasCurrent(S)
    THEN Result(S, FileNotFoundError)
    ELSE IF file_path \notin DOMAIN S.stage
            /\ ~MapHas(CurrentCommit(S).file_blob_map, file_path)
    THEN Result(S, "No reason to remove the file.")
    ELSE LET S1 == [S EXCEPT !.stage = Drop(S.stage, file_path)]
             contents == IF file_path \in DOMAIN S.stage
                         THEN S.stage[file_path].contents
                         ELSE S.wd[file_path]
         IN IF file_path \notin DOMAIN S.wd
            THEN Result(S1, FileNotFoundError)
            ELSE Result([S1 EXCEPT
                            !.stage = Put(S1.stage, file_path,
                                          Blob(file_path, contents, DELETED)),
                            !.wd = Drop(S.wd, file_path)], Ok)

remove(S, file_path) ==
    IF ~HasCurrent(S)
    THEN Result(S, FileNotFoundError)
    ELSE IF file_path \notin DOMAIN S.stage
            /\ ~MapHas(CurrentCommit(S).file_blob_map, file_path)
    THEN Result(S, "No reason to remove the file.")
    ELSE LET S1 == [S EXCEPT !.stage = Drop(S.stage, file_path)]
         IN IF file_path \notin DOMAIN S.wd
            THEN Result(S1, FileNotFoundError)
            ELSE Result([S1 EXCEPT
                            !.stage = Put(S1.stage, file_path,
                                          Blob(file_path, S.wd[file_path], DELETED)),
                            !.wd = Drop(S.wd, file_path)], Ok)
\* The loop with a slip: a staged deletion is taken off the stage but the
\* path stays in the map.
RECURSIVE fold_stage_keep(_, _)
fold_stage_keep(order, acc) ==
    IF order = <<>> \/ ~acc.ok
    THEN acc
    ELSE LET k == Head(order)
             blob == acc.stage[k]
             blobs1 == IF BlobHash(blob) \notin DOMAIN acc.blobs \/ blob.diff # DELETED
                       THEN Put(acc.blobs, BlobHash(blob), blob)
                       ELSE acc.blobs
         IN IF blob.diff # DELETED
            THEN fold_stage_keep(Tail(order),
                                 [map |-> MapSet(acc.map, blob), blobs |-> blobs1,
                                  stage |-> Drop(acc.stage, k), ok |-> TRUE])
            ELSE IF MapHas(acc.map, blob.name)
            THEN fold_stage_keep(Tail(order),
                                 [map |-> acc.map, blobs |-> blobs1,
                                  stage |-> Drop(acc.stage, k), ok |-> TRUE])
            ELSE [acc EXCEPT !.blobs = blobs1, !.ok = FALSE]

\* The loop of commit and merge_commit over the staged files, in the order
\* iterdir() lists them.  acc = [map, blobs, stage, ok]; frozendict.delete
\* raises KeyError for a key the map does not hold, and the loop stops there.
RECURSIVE fold_stage(_, _)
fold_stage(order, acc) ==
    IF order = <<>> \/ ~acc.ok
    THEN acc
    ELSE LET k == Head(order)
             blob == acc.stage[k]
             blobs1 == IF BlobHash(blob) \notin DOMAIN acc.blobs \/ blob.diff # DELETED
                       THEN Put(acc.blobs, BlobHash(blob), blob)
                       ELSE acc.blobs
         IN IF blob.diff # DELETED
            THEN fold_stage(Tail(order),
                            [map |-> MapSet(acc.map, blob), blobs |-> blobs1,
                             stage |-> Drop(acc.stage, k), ok |-> TRUE])
            ELSE IF MapHas(acc.map, blob.name)
            THEN fold_stage(Tail(order),
                            [map |-> MapDelete(acc.map, blob.name), blobs |-> blobs1,
                             stage |-> Drop(acc.stage, k), ok |-> TRUE])
            ELSE [acc EXCEPT !.blobs = blobs1, !.ok = FALSE]

\* The staged files in the order iterdir() lists them: order ranks every name.
StageOrder(S, order) == SelectSeq(order, LAMBDA k : k \in DOMAIN S.stage)
\* commit with its two refusals in the other order: the message is looked at
\* before the stage.
commit_message_first(S, message, ts, order) ==
    IF message = ""
    THEN Result(S, "Please enter a commit message.")
    ELSE IF DOMAIN S.stage = {}
    THEN Result(S, "No changes added to the commit.")
    ELSE IF ~HasCurrent(S)
    THEN Result(S, FileNotFoundError)
    ELSE LET cur == get_current_branch(S)
             acc == fold_stage(StageOrder(S, order),
                               [map |-> CurrentCommit(S).file_blob_map,
                                blobs |-> S.blobs, stage |-> S.stage, ok |-> TRUE])
             S1 == [S EXCEPT !.blobs = acc.blobs, !.stage = acc.stage]
             new == Commit(ts, message, <<cur.commit>>, acc.map)
             S2 == [S1 EXCEPT !.commits = Put(S1.commits, CommitHash(new), new),
                              !.objects = Put(S1.objects, ts, new)]
         IN IF ~acc.ok
            THEN Result(S1, KeyError)
            ELSE Result(set_branch_commit(S2, cur, ts), Ok)

\* commit at time ts.
commit(S, message, ts, order) ==
    IF DOMAIN S.stage = {}
    THEN Result(S, "No changes added to the commit.")
    ELSE IF message = ""
    THEN Result(S, "Please enter a commit message.")
    ELSE IF ~HasCurrent(S)
    THEN Result(S, FileNotFoundError)
    ELSE LET cur == get_current_branch(S)
             acc == fold_stage(StageOrder(S, order),
                               [map |-> CurrentCommit(S).file_blob_map,
                                blobs |-> S.blobs, stage |-> S.stage, ok |-> TRUE])
             S1 == [S EXCEPT !.blobs = acc.blobs, !.stage = acc.stage]
             new == Commit(ts, message, <<cur.commit>>, acc.map)
             S2 == [S1 EXCEPT !.commits = Put(S1.commits, CommitHash(new), new),
                              !.objects = Put(S1.objects, ts, new)]
         IN IF ~acc.ok
            THEN Result(S1, KeyError)
            ELSE Result(set_branch_commit(S2, cur, ts), Ok)
\* commit stopped inside its loop after k staged files: their blobs are
\* written and their stage files unlinked; the map built so far was held in
\* memory only, no commit is written and no branch is moved.
commit_interrupted(S, order, k) ==
    LET acc == fold_stage(SubSeq(StageOrder(S, order), 1, k),
                          [map |-> CurrentCommit(S).file_blob_map,
                           blobs |-> S.blobs, stage |-> S.stage, ok |-> TRUE])
    IN [S EXCEPT !.blobs = acc.blobs, !.stage = acc.stage]

\* One entry of the log: the commit's hash, the abbreviated hashes of both
\* parents for a merge commit (no Merge line otherwise), the date and the
\* message.  A hash is a timestamp here, and so is its abbreviation.
format_commit(c) ==
    [commit |-> CommitHash(c),
     merge |-> IF is_merge_commit(c) THEN <<c.parents[1], c.parents[2]>> ELSE <<>>,
     date |-> c.timestamp,
     message |-> c.message]

\* The loop of log walking up from the last parent instead of the first.
RECURSIVE log_loop_last(_, _)
log_loop_last(objs, c) ==
    <<format_commit(objs[c])>>
        \o (IF objs[c].parents # <<>>
            THEN log_loop_last(objs, objs[c].parents[Len(objs[c].parents)])
            ELSE <<>>)

\* The loop of log from commit c: the entry of c, then the walk goes on from
\* parents[0] as long as there is a parent.
RECURSIVE log_loop(_, _)
log_loop(objs, c) ==
    <<format_commit(objs[c])>>
        \o (IF objs[c].parents # <<>> THEN log_loop(objs, objs[c].parents[1]) ELSE <<>>)

\* log: the entries written, in order (the text returned is their
\* concatenation).
log(S) ==
    IF ~HasCurrent(S)
    THEN [out |-> <<>>, msg |-> FileNotFoundError]
    ELSE [out |-> log_loop(S.objects, get_current_branch(S).commit), msg |-> Ok]

\* modified_status: the dictionary modified_files_with_diff, from path to
\* tag; status prints one line 'path (tag)' per entry, sorted by path.  The
\* first loop goes over the files the current commit tracks, the second over
\* the staged blobs whose tag is Added.
modified_status(S) ==
    IF ~HasCurrent(S)
    THEN [out |-> EmptyMap, msg |-> FileNotFoundError]
    ELSE LET fbm == CurrentCommit(S).file_blob_map
             tracked_modified ==
                 {p \in MapKeys(fbm) :
                     /\ p \in DOMAIN S.wd
                     /\ hash_contents(S.wd[p]) # BlobHash(MapGet(fbm, p))
                     /\ p \notin DOMAIN S.stage}
             tracked_deleted ==
                 {p \in MapKeys(fbm) : p \notin DOMAIN S.wd /\ p \notin DOMAIN S.stage}
             staged_modified ==
                 {p \in DOMAIN S.stage :
                     /\ S.stage[p].diff = ADDED
                     /\ p \in DOMAIN S.wd
                     /\ hash_contents(S.wd[p]) # BlobHash(S.stage[p])}
             staged_deleted ==
                 {p \in DOMAIN S.stage : S.stage[p].diff = ADDED /\ p \notin DOMAIN S.wd}
         IN [out |-> [p \in tracked_modified \cup tracked_deleted
                            \cup staged_modified \cup staged_deleted |->
                         IF p \in staged_deleted THEN DELETED
                         ELSE IF p \in staged_modified THEN MODIFIED
                         ELSE IF p \in tracked_deleted THEN DELETED
                         ELSE MODIFIED],
             msg |-> Ok]

-----------------------------------------------------------------------------
(* The checkout/reset engine.                                              *)

UntrackedFileConflict ==
    "There is an untracked file in the way; delete it, or add and commit it first."

checkout_file(S, file_path) ==
    IF ~HasCurrent(S)
    THEN Result(S, FileNotFoundError)
    ELSE IF ~MapHas(CurrentCommit(S).file_blob_map, file_path)
    THEN Result(S, "File does not exist in that commit.")
    ELSE Result([S EXCEPT !.wd = Put(S.wd, file_path,
                     MapGet(CurrentCommit(S).file_blob_map, file_path).contents)], Ok)

checkout_commit(S, commit_id, file_path) ==
    IF commit_id \notin DOMAIN S.commits
    THEN Result(S, "No commit with that id exists.")
    ELSE IF ~MapHas(S.commits[commit_id].file_blob_map, file_path)
    THEN Result(S, "File does not exist in that commit.")
    ELSE Result([S EXCEPT !.wd = Put(S.wd, file_path,
                     MapGet(S.commits[commit_id].file_blob_map, file_path).contents)], Ok)
\* The first loop writing only the files that are not there: a working file
\* of a path both commits track is left as it is.
RECURSIVE write_missing_files(_, _, _, _)
write_missing_files(S, target_map, current_map, i) ==
    IF i > Len(target_map)
    THEN Result(S, Ok)
    ELSE IF target_map[i].name \in DOMAIN S.wd /\ ~MapHas(current_map, target_map[i].name)
    THEN Result(S, UntrackedFileConflict)
    ELSE IF target_map[i].name \in DOMAIN S.wd
    THEN write_missing_files(S, target_map, current_map, i + 1)
    ELSE write_missing_files(
             [S EXCEPT !.wd = Put(S.wd, target_map[i].name, target_map[i].contents)],
             target_map, current_map, i + 1)

\* The first loop of checkout_branch and reset, from entry i of the target's
\* map: each file is checked, then written; the loop stops at the first
\* untracked file in the way.
RECURSIVE write_target_files(_, _, _, _)
write_target_files(S, target_map, current_map, i) ==
    IF i > Len(target_map)
    THEN Result(S, Ok)
    ELSE IF target_map[i].name \in DOMAIN S.wd /\ ~MapHas(current_map, target_map[i].name)
    THEN Result(S, UntrackedFileConflict)
    ELSE write_target_files(
             [S EXCEPT !.wd = Put(S.wd, target_map[i].name, target_map[i].contents)],
             target_map, current_map, i + 1)
\* The second loop unlinking nothing.
delete_no_files(S, target_map, current_map, i) == Result(S, Ok)

\* The second loop: the files the current commit tracks and the target does
\* not are unlinked; unlink() raises for a file that is not there.
RECURSIVE delete_old_files(_, _, _, _)
delete_old_files(S, target_map, current_map, i) ==
    IF i > Len(current_map)
    THEN Result(S, Ok)
    ELSE IF MapHas(target_map, current_map[i].name)
    THEN delete_old_files(S, target_map, current_map, i + 1)
    ELSE IF current_map[i].name \notin DOMAIN S.wd
    THEN Result(S, FileNotFoundError)
    ELSE delete_old_files([S EXCEPT !.wd = Drop(S.wd, current_map[i].name)],
                          target_map, current_map, i + 1)

\* Both loops and the clearing of the stage.
sync_files(S, target_map, current_map) ==
    LET r1 == write_target_files(S, target_map, current_map, 1)
        r2 == delete_old_files(r1.S, target_map, current_map, 1)
    IN IF r1.msg # Ok THEN r1
       ELSE IF r2.msg # Ok THEN r2
       ELSE Result([r2.S EXCEPT !.stage = EmptyMap], Ok)

checkout_branch(S, branch_name) ==
    IF ~HasCurrent(S)
    THEN Result(S, FileNotFoundError)
    ELSE IF branch_name \notin DOMAIN S.branches
    THEN Result(S, "No such branch exists.")
    ELSE IF BranchName(get_current_branch(S)) = branch_name
    THEN Result(S, "No need to checkout the current branch.")
    ELSE LET cur == get_current_branch(S)
             target_branch == S.branches[branch_name]
             r == sync_files(S, S.objects[target_branch.commit].file_blob_map,
                             S.objects[cur.commit].file_blob_map)
         IN IF r.msg # Ok
            THEN r
            ELSE Result(write_branch(write_branch(r.S, [cur EXCEPT !.is_current = FALSE]),
                                     [target_branch EXCEPT !.is_current = TRUE]), Ok)

branch(S, branch_name) ==
    IF branch_name \in DOMAIN S.branches
    THEN Result(S, "A branch with that name already exists.")
    ELSE IF ~HasCurrent(S)
    THEN Result(S, FileNotFoundError)
    ELSE Result(write_branch(S, Branch(branch_name, get_current_branch(S).commit,
                                       FALSE, NoRemote)), Ok)

remove_branch(S, branch_name) ==
    IF branch_name \notin DOMAIN S.branches
    THEN Result(S, "A branch with that name does not exist.")
    ELSE IF ~HasCurrent(S)
    THEN Result(S, FileNotFoundError)
    ELSE IF BranchName(get_current_branch(S)) = branch_name
    THEN Result(S, "Cannot remove the current branch.")
    ELSE Result([S EXCEPT !.branches = Drop(S.branches, branch_name)], Ok)
\* reset that also prunes the commits newer than the one it moves to.
reset_prune(S, commit_id) ==
    IF commit_id \notin DOMAIN S.commits
    THEN Result(S, "No commit with that id exists.")
    ELSE IF ~HasCurrent(S)
    THEN Result(S, FileNotFoundError)
    ELSE LET target_commit == S.commits[commit_id]
             r == sync_files(S, target_commit.file_blob_map,
                             CurrentCommit(S).file_blob_map)
             kept == [h \in {k \in DOMAIN S.commits : k <= commit_id} |-> S.commits[h]]
         IN IF r.msg # Ok
            THEN r
            ELSE Result(write_branch([r.S EXCEPT !.commits = kept],
                                     [get_current_branch(r.S) EXCEPT
                                         !.commit = CommitHash(target_commit)]), Ok)

reset(S, commit_id) ==
    IF commit_id \notin DOMAIN S.commits
    THEN Result(S, "No commit with that id exists.")
    ELSE IF ~HasCurrent(S)
    THEN Result(S, FileNotFoundError)
    ELSE LET target_commit == S.commits[commit_id]
             r == sync_files(S, target_commit.file_blob_map,
                             CurrentCommit(S).file_blob_map)
         IN IF r.msg # Ok
            THEN r
            ELSE Result(write_branch(r.S, [get_current_branch(r.S) EXCEPT
                                              !.commit = CommitHash(target_commit)]), Ok)

-----------------------------------------------------------------------------
(* The history engine.                                                     *)

\* The loop of commit_history: the queue and the list built so far.  The
\* test before put() compares the list with its own elements and is always
\* true, so every parent is queued and duplicates are dropped when taken.
RECURSIVE commit_bfs(_, _, _)
commit_bfs(objs, commit_queue, bfs) ==
    IF commit_queue = <<>>
    THEN bfs
    ELSE LET current_commit == Head(commit_queue)
         IN IF current_commit \in SeqElems(bfs)
            THEN commit_bfs(objs, Tail(commit_queue), bfs)
            ELSE commit_bfs(objs, Tail(commit_queue) \o objs[current_commit].parents,
                            Append(bfs, current_commit))

commit_history(objs, c) == commit_bfs(objs, <<c>>, <<>>)

NoCommit == -1
\* The first, not the last, of the positions at which the histories agree.
latest_common_ancestor_first(objs, origin, target) ==
    LET origin_history == Reverse(commit_history(objs, origin))
        target_history == Reverse(commit_history(objs, target))
        n == IF Len(origin_history) < Len(target_history)
             THEN Len(origin_history) ELSE Len(target_history)
        shared == {i \in 1..n : origin_history[i] = target_history[i]}
    IN IF shared = {}
       THEN NoCommit
       ELSE origin_history[CHOOSE i \in shared : \A j \in shared : i <= j]

\* zip() of the two reversed histories, the pairs that agree, the last of
\* them; [-1] of an empty list raises IndexError (NoCommit here).
latest_common_ancestor(objs, origin, target) ==
    LET origin_history == Reverse(commit_history(objs, origin))
        target_history == Reverse(commit_history(objs, target))
        n == IF Len(origin_history) < Len(target_history)
             THEN Len(origin_history) ELSE Len(target_history)
        shared == {i \in 1..n : origin_history[i] = target_history[i]}
    IN IF shared = {}
       THEN NoCommit
       ELSE origin_history[CHOOSE i \in shared : \A j \in shared : j <= i]

-----------------------------------------------------------------------------
(* The merge engine.                                                       *)

\* A conflict body with the two sides exchanged.
generate_conflict_reversed(origin, target) ==
    "<<<<<<< HEAD\n" \o target \o "=======\n" \o origin \o ">>>>>>>\n"

generate_conflict(origin, target) ==
    "<<<<<<< HEAD\n" \o origin \o "=======\n" \o target \o ">>>>>>>\n"

\* A step of merge's loops: the working file is written, then staged by add.
write_and_add(S, file_name, contents) ==
    add([S EXCEPT !.wd = Put(S.wd, file_name, contents)], file_name)

\* A step of merge's loops: the target's version is checked out, then staged.
checkout_and_add(S, commit_id, file_name) ==
    LET r == checkout_commit(S, commit_id, file_name)
    IN IF r.msg # Ok THEN r ELSE add(r.S, file_name)

\* The body of merge's first loop for one entry of the target's map.
\* Yields [S, msg, conflicted].
merge_target_file(S, blob, lca_map, origin_map, target_id) ==
    LET file_name == blob.name
        step(r, c) == [S |-> r.S, msg |-> r.msg, conflicted |-> c]
    IN IF file_name \in DOMAIN S.wd /\ ~MapHas(origin_map, file_name)
       THEN step(Result(S, UntrackedFileConflict), FALSE)
       ELSE IF ~MapHas(lca_map, file_name)
       THEN IF MapHas(origin_map, file_name)
               /\ BlobHash(MapGet(origin_map, file_name)) # BlobHash(blob)
            THEN step(write_and_add(S, file_name,
                         generate_conflict(MapGet(origin_map, file_name).contents,
                                           blob.contents)), TRUE)
            ELSE step(checkout_and_add(S, target_id, file_name), FALSE)
       ELSE IF BlobHash(MapGet(lca_map, file_name)) # BlobHash(blob)
               /\ ~MapHas(origin_map, file_name)
       THEN step(write_and_add(S, file_name, generate_conflict("\n", blob.contents)),
                 TRUE)
       \* the last conjunct of the source compares a Blob with a digest string,
       \* which is never equal
       ELSE IF BlobHash(MapGet(lca_map, file_name)) # BlobHash(blob)
               /\ MapHas(origin_map, file_name)
               /\ MapGet(lca_map, file_name) # MapGet(origin_map, file_name)
       THEN step(write_and_add(S, file_name,
                    generate_conflict(MapGet(origin_map, file_name).contents,
                                      blob.contents)), TRUE)
       ELSE step(Result(S, Ok), FALSE)

\* A second loop that leaves alone a path the target has deleted.
merge_origin_file_keep(S, blob, lca_map, target_map, target_id) ==
    LET file_name == blob.name
        step(r, c) == [S |-> r.S, msg |-> r.msg, conflicted |-> c]
    IN IF ~MapHas(lca_map, file_name)
       THEN step(Result(S, Ok), FALSE)
       ELSE IF BlobHash(MapGet(lca_map, file_name)) # BlobHash(blob)
               /\ ~MapHas(target_map, file_name)
       THEN step(write_and_add(S, file_name, generate_conflict(blob.contents, "\n")),
                 TRUE)
       ELSE IF MapHas(target_map, file_name)
               /\ BlobHash(MapGet(lca_map, file_name)) = BlobHash(blob)
               /\ BlobHash(MapGet(lca_map, file_name))
                    # BlobHash(MapGet(target_map, file_name))
       THEN step(checkout_and_add(S, target_id, file_name), FALSE)
       ELSE step(Result(S, Ok), FALSE)

\* The body of merge's second loop for one entry of the origin's map.
merge_origin_file(S, blob, lca_map, target_map, target_id) ==
    LET file_name == blob.name
        step(r, c) == [S |-> r.S, msg |-> r.msg, conflicted |-> c]
    IN IF ~MapHas(lca_map, file_name)
       THEN step(Result(S, Ok), FALSE)
       ELSE IF BlobHash(MapGet(lca_map, file_name)) # BlobHash(blob)
               /\ ~MapHas(target_map, file_name)
       THEN step(write_and_add(S, file_name, generate_conflict(blob.contents, "\n")),
                 TRUE)
       ELSE IF MapHas(target_map, file_name)
               /\ BlobHash(MapGet(lca_map, file_name)) = BlobHash(blob)
               /\ BlobHash(MapGet(lca_map, file_name))
                    # BlobHash(MapGet(target_map, file_name))
       THEN step(checkout_and_add(S, target_id, file_name), FALSE)
       ELSE IF BlobHash(MapGet(lca_map, file_name)) = BlobHash(blob)
               /\ ~MapHas(target_map, file_name)
       THEN step(remove(S, file_name), FALSE)
       ELSE step(Result(S, Ok), FALSE)

\* merge's first loop from entry i of the target's map; acc = [S, msg, conflicted].
RECURSIVE merge_target_loop(_, _, _, _, _, _)
merge_target_loop(acc, target_map, lca_map, origin_map, target_id, i) ==
    IF i > Len(target_map) \/ acc.msg # Ok
    THEN acc
    ELSE LET st == merge_target_file(acc.S, target_map[i], lca_map, origin_map, target_id)
         IN merge_target_loop([st EXCEPT !.conflicted = acc.conflicted \/ st.conflicted],
                              target_map, lca_map, origin_map, target_id, i + 1)

\* merge's second loop from entry i of the origin's map.
RECURSIVE merge_origin_loop(_, _, _, _, _, _)
merge_origin_loop(acc, origin_map, lca_map, target_map, target_id, i) ==
    IF i > Len(origin_map) \/ acc.msg # Ok
    THEN acc
    ELSE LET st == merge_origin_file(acc.S, origin_map[i], lca_map, target_map, target_id)
         IN merge_origin_loop([st EXCEPT !.conflicted = acc.conflicted \/ st.conflicted],
                              origin_map, lca_map, target_map, target_id, i + 1)
\* merge_commit recording the two parents in the other order.
merge_commit_swapped(S, origin_branch, target_branch, ts, order) ==
    LET acc == fold_stage(StageOrder(S, order),
                          [map |-> S.objects[origin_branch.commit].file_blob_map,
                           blobs |-> S.blobs, stage |-> S.stage, ok |-> TRUE])
        S1 == [S EXCEPT !.blobs = acc.blobs, !.stage = acc.stage]
        new == Commit(ts,
                      "Merged " \o BranchName(target_branch) \o " into "
                          \o BranchName(origin_branch),
                      <<target_branch.commit, origin_branch.commit>>, acc.map)
        S2 == [S1 EXCEPT !.commits = Put(S1.commits, CommitHash(new), new),
                         !.objects = Put(S1.objects, ts, new)]
    IN IF ~acc.ok
       THEN Result(S1, KeyError)
       ELSE Result(set_branch_commit(S2, origin_branch, ts), Ok)

merge_commit(S, origin_branch, target_branch, ts, order) ==
    LET acc == fold_stage(StageOrder(S, order),
                          [map |-> S.objects[origin_branch.commit].file_blob_map,
                           blobs |-> S.blobs, stage |-> S.stage, ok |-> TRUE])
        S1 == [S EXCEPT !.blobs = acc.blobs, !.stage = acc.stage]
        new == Commit(ts,
                      "Merged " \o BranchName(target_branch) \o " into "
                          \o BranchName(origin_branch),
                      <<origin_branch.commit, target_branch.commit>>, acc.map)
        S2 == [S1 EXCEPT !.commits = Put(S1.commits, CommitHash(new), new),
                         !.objects = Put(S1.objects, ts, new)]
    IN IF ~acc.ok
       THEN Result(S1, KeyError)
       ELSE Result(set_branch_commit(S2, origin_branch, ts), Ok)
\* merge looking for the target branch before it looks at the stage.
merge_branch_first(S, target_branch_name, ts, order) ==
    IF target_branch_name \notin DOMAIN S.branches
    THEN Result(S, "A branch with that name does not exist.")
    ELSE IF DOMAIN S.stage # {}
    THEN Result(S, "You have uncommitted changes.")
    ELSE IF ~HasCurrent(S)
    THEN Result(S, FileNotFoundError)
    ELSE IF BranchName(get_current_branch(S)) = target_branch_name
    THEN Result(S, "Cannot merge a branch with itself.")
    ELSE LET target_branch == S.branches[target_branch_name]
             origin_id == get_current_branch(S).commit
             target_id == target_branch.commit
             lca == latest_common_ancestor(S.objects, origin_id, target_id)
         IN IF lca = NoCommit
            THEN Result(S, IndexError)
            ELSE IF lca = target_id
            THEN Result(S, "Given branch is an ancestor of the current branch.")
            ELSE IF lca = origin_id
            THEN LET r == checkout_branch(S, BranchName(target_branch))
                 IN IF r.msg # Ok THEN r ELSE Result(r.S, "Current branch fast-forwarded.")
            ELSE LET lca_map == S.objects[lca].file_blob_map
                     origin_map == S.objects[origin_id].file_blob_map
                     target_map == S.objects[target_id].file_blob_map
                     a1 == merge_target_loop([S |-> S, msg |-> Ok, conflicted |-> FALSE],
                                             target_map, lca_map, origin_map, target_id, 1)
                     a2 == merge_origin_loop(a1, origin_map, lca_map, target_map,
                                             target_id, 1)
                     r == merge_commit(a2.S, get_current_branch(a2.S), target_branch,
                                       ts, order)
                 IN IF a2.msg # Ok
                    THEN Result(a2.S, a2.msg)
                    ELSE IF r.msg # Ok
                    THEN r
                    ELSE Result(r.S, IF a2.conflicted
                                     THEN "Encountered a merge conflict." ELSE Ok)

merge(S, target_branch_name, ts, order) ==
    IF DOMAIN S.stage # {}
    THEN Result(S, "You have uncommitted changes.")
    ELSE IF target_branch_name \notin DOMAIN S.branches
    THEN Result(S, "A branch with that name does not exist.")
    ELSE IF ~HasCurrent(S)
    THEN Result(S, FileNotFoundError)
    ELSE IF BranchName(get_current_branch(S)) = target_branch_name
    THEN Result(S, "Cannot merge a branch with itself.")
    ELSE LET target_branch == S.branches[target_branch_name]
             origin_id == get_current_branch(S).commit
             target_id == target_branch.commit
             lca == latest_common_ancestor(S.objects, origin_id, target_id)
         IN IF lca = NoCommit
            THEN Result(S, IndexError)
            ELSE IF lca = target_id
            THEN Result(S, "Given branch is an ancestor of the current branch.")
            ELSE IF lca = origin_id
            THEN LET r == checkout_branch(S, BranchName(target_branch))
                 IN IF r.msg # Ok THEN r ELSE Result(r.S, "Current branch fast-forwarded.")
            ELSE LET lca_map == S.objects[lca].file_blob_map
                     origin_map == S.objects[origin_id].file_blob_map
                     target_map == S.objects[target_id].file_blob_map
                     a1 == merge_target_loop([S |-> S, msg |-> Ok, conflicted |-> FALSE],
                                             target_map, lca_map, origin_map, target_id, 1)
                     a2 == merge_origin_loop(a1, origin_map, lca_map, target_map,
                                             target_id, 1)
                     r == merge_commit(a2.S, get_current_branch(a2.S), target_branch,
                                       ts, order)
                 IN IF a2.msg # Ok
                    THEN Result(a2.S, a2.msg)
                    ELSE IF r.msg # Ok
                    THEN r
                    ELSE Result(r.S, IF a2.conflicted
                                     THEN "Encountered a merge conflict." ELSE Ok)

-----------------------------------------------------------------------------
(* Remote synchronisation.  S is the repository the command runs in and T  *)
(* the repository its remote folder links to.                              *)

RemoteNotFound == "Remote directory not found."
NonFastForward == "Please pull down remote changes before pushing."

add_remote(S, remote_name, remote_repo) ==
    IF remote_name \in DOMAIN S.remotes
    THEN Result(S, "A remote with that name already exists.")
    ELSE IF remote_name \in DOMAIN S.branches
    THEN Result(S, "FileExistsError")
    ELSE Result([S EXCEPT !.remotes = Put(S.remotes, remote_name, remote_repo)], Ok)

\* Every file of the remote folder is unlinked: the .gitlet link and the
\* remote-tracking branches kept in the folder.
remove_remote(S, remote_name) ==
    IF remote_name \notin DOMAIN S.remotes
    THEN Result(S, "A remote with that name does not exist.")
    ELSE Result([S EXCEPT
                    !.remotes = Drop(S.remotes, remote_name),
                    !.branches = [k \in {n \in DOMAIN S.branches :
                                            S.branches[n].remote # remote_name}
                                  |-> S.branches[k]]], Ok)

\* The commits of a list written to the commit folder.
RECURSIVE write_commits(_, _, _)
write_commits(T, objs, ids) ==
    IF ids = <<>>
    THEN T
    ELSE write_commits([T EXCEPT !.commits = Put(T.commits, CommitHash(objs[Head(ids)]),
                                                 objs[Head(ids)])],
                       objs, Tail(ids))

IndexOf(s, x) == CHOOSE i \in 1..Len(s) : s[i] = x /\ \A j \in 1..(i - 1) : s[j] # x

\* push yields the remote repository T afterwards.
push(S, T, remote_name, remote_branch_name) ==
    IF remote_name \notin DOMAIN S.remotes
    THEN Result(T, RemoteNotFound)
    ELSE IF ~HasCurrent(S)
    THEN Result(T, FileNotFoundError)
    ELSE IF remote_branch_name \notin DOMAIN T.branches
    THEN LET new_branch_to_remote == [get_current_branch(S) EXCEPT !.is_current = FALSE]
         IN IF new_branch_to_remote.remote # NoRemote
               /\ new_branch_to_remote.remote \notin DOMAIN T.remotes
            THEN Result(T, FileNotFoundError)
            ELSE Result(write_branch(T, new_branch_to_remote), Ok)
    ELSE IF (remote_name \o "/" \o remote_branch_name) \notin DOMAIN S.branches
    THEN Result(T, FileNotFoundError)
    ELSE LET remote_branch == S.branches[remote_name \o "/" \o remote_branch_name]
             current_commit == get_current_branch(S).commit
             current_commit_history == Reverse(commit_history(S.objects, current_commit))
         IN IF remote_branch.commit \notin SeqElems(current_commit_history)
            THEN Result(T, NonFastForward)
            ELSE LET future_commit_index ==
                         IndexOf(current_commit_history, remote_branch.commit)
                     commits_to_push ==
                         SubSeq(current_commit_history, future_commit_index + 1,
                                Len(current_commit_history))
                 IN reset(write_commits(T, S.objects, commits_to_push),
                          CommitHash(S.objects[current_commit]))

\* The inner loop of fetch: the blobs of a commit's map, each written under
\* the key of its map entry unless a file of that name is there.
RECURSIVE fetch_blobs(_, _)
fetch_blobs(store, file_blob_map) ==
    IF file_blob_map = <<>>
    THEN store
    ELSE fetch_blobs(IF Head(file_blob_map).name \in DOMAIN store
                     THEN store
                     ELSE Put(store, Head(file_blob_map).name, Head(file_blob_map)),
                     Tail(file_blob_map))

\* The outer loop of fetch over the remote branch's history.
RECURSIVE fetch_commits(_, _)
fetch_commits(S, ids) ==
    IF ids = <<>>
    THEN S
    ELSE LET c == S.objects[Head(ids)]
         IN fetch_commits([S EXCEPT !.commits = Put(S.commits, CommitHash(c), c),
                                    !.blobs = fetch_blobs(S.blobs, c.file_blob_map)],
                          Tail(ids))

\* fetch yields the local repository S afterwards.  The remote-tracking
\* branch is pickled to its file directly, not through write_branch.
fetch(S, T, remote_name, remote_branch_name) ==
    IF remote_name \notin DOMAIN S.remotes
    THEN Result(S, RemoteNotFound)
    ELSE IF remote_branch_name \notin DOMAIN T.branches
    THEN Result(S, "That remote does not have that branch.")
    ELSE LET remote_branch == T.branches[remote_branch_name]
             remote_branch_history == commit_history(S.objects, remote_branch.commit)
             S1 == fetch_commits(S, remote_branch_history)
             remote_branch_on_local ==
                 Branch(remote_branch_name, remote_branch_history[1], FALSE, remote_name)
         IN Result([S1 EXCEPT !.branches = Put(S1.branches,
                                               BranchName(remote_branch_on_local),
                                               remote_branch_on_local)], Ok)

pull(S, T, remote_name, remote_branch_name, ts, order) ==
    LET r == fetch(S, T, remote_name, remote_branch_name)
    IN IF r.msg # Ok
       THEN r
       ELSE merge(r.S, remote_name \o "/" \o remote_branch_name, ts, order)

-----------------------------------------------------------------------------
(* Actions: one command applied to one repository.                         *)

\* Repo r becomes res.S, the repository a command leaves.  A command that
\* builds a commit is run only while the clock is at most cap.
Run(r, res, cap) ==
    /\ IF res.S.objects = objects THEN TRUE ELSE now <= cap
    /\ Store(r, res.S)

\* The user writes or deletes a working file.
WriteFile(r, path, contents) ==
    /\ IF path \in DOMAIN wd[r] THEN wd[r][path] # contents ELSE TRUE
    /\ wd' = [wd EXCEPT ![r] = Put(wd[r], path, contents)]
    /\ UNCHANGED <<commits, blobs, stage, branches, current_branch, remotes,
                   objects, now>>

DeleteFile(r, path) ==
    /\ path \in DOMAIN wd[r]
    /\ wd' = [wd EXCEPT ![r] = Drop(wd[r], path)]
    /\ UNCHANGED <<commits, blobs, stage, branches, current_branch, remotes,
                   objects, now>>

DoAdd(r, path) == Run(r, add(Repo(r), path), 0)

DoRemove(r, path) == Run(r, remove(Repo(r), path), 0)

DoCommit(r, message, order, cap) ==
    Run(r, commit(Repo(r), message, now, order), cap)

DoCheckoutFile(r, path) ==
    Run(r, checkout_file(Repo(r), path), 0)

DoCheckoutCommit(r, commit_id, path) ==
    Run(r, checkout_commit(Repo(r), commit_id, path), 0)

DoCheckoutBranch(r, name) ==
    Run(r, checkout_branch(Repo(r), name), 0)

DoBranch(r, name) == Run(r, branch(Repo(r), name), 0)

DoRemoveBranch(r, name) ==
    Run(r, remove_branch(Repo(r), name), 0)

DoReset(r, commit_id) == Run(r, reset(Repo(r), commit_id), 0)

DoMerge(r, name, order, cap) ==
    Run(r, merge(Repo(r), name, now, order), cap)

DoAddRemote(r, remote_name, t) ==
    Run(r, add_remote(Repo(r), remote_name, t), 0)

DoRemoveRemote(r, remote_name) ==
    Run(r, remove_remote(Repo(r), remote_name), 0)

\* The repository a remote folder of r links to (r itself when there is none:
\* the command then fails before it reads it).
RemoteRepo(r, remote_name) ==
    IF remote_name \in DOMAIN remotes[r] THEN remotes[r][remote_name] ELSE r

DoPush(r, remote_name, name) ==
    Run(RemoteRepo(r, remote_name),
        push(Repo(r), Repo(RemoteRepo(r, remote_name)), remote_name, name), 0)

DoFetch(r, remote_name, name) ==
    Run(r, fetch(Repo(r), Repo(RemoteRepo(r, remote_name)), remote_name, name), 0)

DoPull(r, remote_name, name, order, cap) ==
    Run(r, pull(Repo(r), Repo(RemoteRepo(r, remote_name)), remote_name, name, now, order),
        cap)

-----------------------------------------------------------------------------
(* Specifications.                                                         *)

\* Both repositories after init, with empty working directories.
Init ==
    /\ commits = [r \in Repos |-> init.commits]
    /\ blobs = [r \in Repos |-> init.blobs]
    /\ stage = [r \in Repos |-> init.stage]
    /\ branches = [r \in Repos |-> init.branches]
    /\ current_branch = [r \in Repos |-> init.current_branch]
    /\ remotes = [r \in Repos |-> init.remotes]
    /\ wd = [r \in Repos |-> init.wd]
    /\ objects = init.objects
    /\ now = 1

\* The inputs of the commands.
Paths == {"a", "b"}
Messages == {"m"}
BranchNames == {"main", "dev"}
RemoteName == "origin"

\* Histories of one repository with merges: one file with three contents.
MergeFiles == {<<"a", "x\n">>, <<"a", "y\n">>, <<"a", "z\n">>}

Next ==
    \/ \E f \in MergeFiles : WriteFile("local", f[1], f[2])
    \/ DoAdd("local", "a")
    \/ \E m \in Messages, o \in Orders(Paths) : DoCommit("local", m, o, MaxCommits)
    \/ \E n \in BranchNames : DoBranch("local", n)
    \/ \E n \in BranchNames : DoCheckoutBranch("local", n)
    \/ \E n \in BranchNames, o \in Orders(Paths) : DoMerge("local", n, o, MaxCommits)

Spec == Init /\ [][Next]_vars

\* The staging area: two files, two contents, every staging command.
StageFiles == {<<"a", "x\n">>, <<"a", "y\n">>, <<"b", "x\n">>}

NextStage ==
    \/ \E f \in StageFiles : WriteFile("local", f[1], f[2])
    \/ \E p \in Paths : DeleteFile("local", p)
    \/ \E p \in Paths : DoAdd("local", p)
    \/ \E p \in Paths : DoRemove("local", p)
    \/ \E m \in Messages \cup {""}, o \in Orders(Paths) :
           DoCommit("local", m, o, MaxCommitsStage)
    \/ \E p \in Paths : DoCheckoutFile("local", p)

SpecStage == Init /\ [][NextStage]_vars

\* Checkout, reset and merge over working files that may be in the way.
SyncFiles == {<<"a", "x\n">>, <<"a", "y\n">>, <<"b", "x\n">>}

NextSync ==
    \/ \E f \in SyncFiles : WriteFile("local", f[1], f[2])
    \/ \E p \in Paths : DoAdd("local", p)
    \/ \E m \in Messages, o \in Orders(Paths) : DoCommit("local", m, o, MaxCommitsSync)
    \/ \E n \in BranchNames : DoBranch("local", n)
    \/ \E n \in BranchNames : DoRemoveBranch("local", n)
    \/ \E n \in BranchNames : DoCheckoutBranch("local", n)
    \/ \E id \in DOMAIN commits["local"] : DoReset("local", id)
    \/ \E n \in BranchNames, o \in Orders(Paths) :
           DoMerge("local", n, o, MaxCommitsSync)

SpecSync == Init /\ [][NextSync]_vars

\* Switching between snapshots in one repository: path a is written with two
\* contents, staged and removed; path b is the other file, only ever added.
SwitchFiles == {<<"a", "x\n">>, <<"a", "y\n">>, <<"b", "x\n">>}

NextSwitch ==
    \/ \E f \in SwitchFiles : WriteFile("local", f[1], f[2])
    \/ \E p \in Paths : DoAdd("local", p)
    \/ DoRemove("local", "a")
    \/ \E m \in Messages, o \in Orders(Paths) :
           DoCommit("local", m, o, MaxCommitsSwitch)
    \/ DoBranch("local", "dev")
    \/ \E n \in BranchNames : DoCheckoutBranch("local", n)
    \/ \E id \in DOMAIN commits["local"] : DoReset("local", id)

SpecSwitch == Init /\ [][NextSwitch]_vars

\* Three-way merges in one repository: two paths, path a with two contents
\* and removable, untracked working files, two branches.  A merge may build
\* one commit more than commit does.
MergeTreeFiles == {<<"a", "x\n">>, <<"a", "y\n">>, <<"b", "x\n">>}

NextMerge ==
    \/ \E f \in MergeTreeFiles : WriteFile("local", f[1], f[2])
    \/ \E p \in Paths : DoAdd("local", p)
    \/ DoRemove("local", "a")
    \/ \E m \in Messages, o \in Orders(Paths) :
           DoCommit("local", m, o, MaxCommitsMerge)
    \/ DoBranch("local", "dev")
    \/ \E n \in BranchNames : DoCheckoutBranch("local", n)
    \/ \E n \in BranchNames, o \in Orders(Paths) :
           DoMerge("local", n, o, MaxCommitsMerge + 1)

SpecMerge == Init /\ [][NextMerge]_vars

\* Two repositories: local has the remote folder origin linked to remote.
RemoteBranchNames == {"main", "dev"}

NextRemote ==
    \/ \E r \in Repos : WriteFile(r, "a", "x\n")
    \/ \E r \in Repos : DoAdd(r, "a")
    \/ \E r \in Repos, m \in Messages, o \in Orders(Paths) :
           DoCommit(r, m, o, MaxCommitsRemote)
    \/ DoBranch("local", "dev")
    \/ \E n \in {"main", "dev", "origin/main"} : DoCheckoutBranch("local", n)
    \/ DoAddRemote("local", RemoteName, "remote")
    \/ DoRemoveRemote("local", RemoteName)
    \/ \E n \in RemoteBranchNames : DoPush("local", RemoteName, n)
    \/ \E n \in RemoteBranchNames : DoFetch("local", RemoteName, n)
    \/ \E n \in RemoteBranchNames, o \in Orders(Paths) :
           DoPull("local", RemoteName, n, o, MaxCommitsRemote)

SpecRemote == Init /\ [][NextRemote]_vars

\* A remote that is worked in: local pushes its branch dev, and the remote
\* commits, checks out, resets and merges the branches it holds.
NextShare ==
    \/ \E r \in Repos, p \in Paths : WriteFile(r, p, "x\n")
    \/ \E r \in Repos, p \in Paths : DoAdd(r, p)
    \/ \E r \in Repos, o \in Orders(Paths) : DoCommit(r, "m", o, MaxCommitsShare)
    \/ DoBranch("local", "dev")
    \/ \E r \in Repos, n \in {"main", "dev"} : DoCheckoutBranch(r, n)
    \/ DoAddRemote("local", RemoteName, "remote")
    \/ DoPush("local", RemoteName, "dev")
    \/ \E id \in DOMAIN commits["remote"] : DoReset("remote", id)
    \/ \E o \in Orders(Paths) : DoMerge("remote", "dev", o, MaxCommitsShare)

SpecShare == Init /\ [][NextShare]_vars

\* The commit store: every command that writes to it or moves a branch, in
\* two repositories with one file.
NextStore ==
    \/ \E r \in Repos : WriteFile(r, "a", "x\n")
    \/ \E r \in Repos : DoAdd(r, "a")
    \/ \E r \in Repos : DoCommit(r, "m", <<"a", "b">>, MaxCommitsStore)
    \/ DoBranch("local", "dev")
    \/ DoRemoveBranch("local", "dev")
    \/ \E n \in {"main", "dev"} : DoCheckoutBranch("local", n)
    \/ \E id \in DOMAIN commits["local"] : DoReset("local", id)
    \/ \E n \in {"dev", "origin/main"} :
           DoMerge("local", n, <<"a", "b">>, MaxCommitsStore + 1)
    \/ DoAddRemote("local", RemoteName, "remote")
    \/ DoPush("local", RemoteName, "main")
    \/ DoFetch("local", RemoteName, "main")

SpecStore == Init /\ [][NextStore]_vars

\* Deep histories: three branch names, one file with two contents.  Only
\* file a is ever staged, so the order of iterdir() is of no account.  A
\* merge may build one commit more than commit does.
DeepBranchNames == {"main", "dev", "alt"}

DeepFiles == {"x\n", "y\n"}

NextDeep ==
    \/ \E c \in DeepFiles : WriteFile("local", "a", c)
    \/ DoAdd("local", "a")
    \/ DoCommit("local", "m", <<"a", "b">>, MaxCommitsDeep)
    \/ \E n \in DeepBranchNames : DoBranch("local", n)
    \/ \E n \in DeepBranchNames : DoCheckoutBranch("local", n)
    \/ \E n \in DeepBranchNames :
           DoMerge("local", n, <<"a", "b">>, MaxCommitsDeep + 1)

SpecDeep == Init /\ [][NextDeep]_vars

-----------------------------------------------------------------------------
(* Properties.                                                             *)

\* x is y or an ancestor of y: y's parents links lead to x.
IsAncestor(x, y) == x \in SeqElems(commit_history(objects, y))

\* The branches of repo r whose is_current flag is set.
CurrentBranches(r) == {n \in DOMAIN branches[r] : branches[r][n].is_current}

\* C1: in every reachable state each repository has exactly one stored branch
\* whose is_current flag is true, and the .current-branch link resolves to it.
C1_OneCurrentBranch ==
    \A r \in Repos :
        /\ Cardinality(CurrentBranches(r)) = 1
        /\ current_branch[r] \in CurrentBranches(r)

\* The tips of the branches of repo r.
BranchTips(r) == {branches[r][n].commit : n \in DOMAIN branches[r]}

\* The stored commits of repo r that no branch of r reaches any more.
Unreachable(r) ==
    {h \in DOMAIN commits[r] : \A t \in BranchTips(r) : ~IsAncestor(h, t)}

\* C2: no command deletes or alters a stored commit: every commit stored
\* before a step is stored after it under the same hash with the same
\* message, timestamp, parents and file map (for commit, reset,
\* checkout_branch, remove_branch, merge, fetch and push).
C2_CommitsKept ==
    [][\A r \in Repos : \A h \in DOMAIN commits[r] :
           /\ h \in DOMAIN commits'[r]
           /\ commits'[r][h] = commits[r][h]]_vars

\* C2 witness: reset or remove_branch has left a commit that no branch
\* reaches, and it is still in the store.
C2_Witness ==
    /\ Unreachable("local") # {}
    /\ \E h \in Unreachable("local") : h > branches["local"][current_branch["local"]].commit

\* merge ran to its end: it printed one of its outcomes and raised nothing.
MergeCompleted(res) ==
    res.msg \in {Ok, "Current branch fast-forwarded.", "Encountered a merge conflict."}

\* C3: when the current branch A's tip is a proper ancestor of the given
\* branch B's tip, a merge that completes leaves A the current branch with
\* A's tip equal to B's tip, and stores no new commit.
C3_FastForward ==
    LET S == Repo("local")
    IN \A n \in DOMAIN S.branches, o \in Orders(Paths) :
           LET A == get_current_branch(S)
               B == S.branches[n]
               res == merge(S, n, now, o)
           IN (/\ HasCurrent(S)
               /\ A.commit # B.commit
               /\ IsAncestor(A.commit, B.commit)
               /\ MergeCompleted(res))
              => /\ res.S.current_branch = BranchName(A)
                 /\ res.S.branches[BranchName(A)].is_current
                 /\ res.S.branches[BranchName(A)].commit = B.commit
                 /\ res.S.commits = S.commits

\* C4: when the stage is empty and the tip of the given branch B is the
\* current tip or one of its ancestors, merge reports that the given branch
\* is an ancestor and changes nothing in the repository.
C4_AncestorNoop ==
    LET S == Repo("local")
    IN \A n \in DOMAIN S.branches, o \in Orders(Paths) :
           LET A == get_current_branch(S)
               B == S.branches[n]
               res == merge(S, n, now, o)
           IN (/\ HasCurrent(S)
               /\ DOMAIN S.stage = {}
               /\ n # BranchName(A)
               /\ IsAncestor(B.commit, A.commit))
              => /\ res.msg = "Given branch is an ancestor of the current branch."
                 /\ res.S = S

\* The commits both o and t reach, and the latest of them: the common
\* ancestors that are an ancestor of no other common ancestor.
CommonAncestors(o, t) ==
    {c \in DOMAIN objects : IsAncestor(c, o) /\ IsAncestor(c, t)}

MergeBases(o, t) ==
    {c \in CommonAncestors(o, t) :
        \A d \in CommonAncestors(o, t) \ {c} : ~IsAncestor(c, d)}

\* f is tracked with contents Z at commit l, X at commit o and Y at commit t,
\* all three different: both sides changed it, and differently.
BothModified(f, l, o, t) ==
    LET lm == objects[l].file_blob_map
        om == objects[o].file_blob_map
        tm == objects[t].file_blob_map
    IN /\ MapHas(lm, f) /\ MapHas(om, f) /\ MapHas(tm, f)
       /\ MapGet(om, f).contents # MapGet(lm, f).contents
       /\ MapGet(tm, f).contents # MapGet(lm, f).contents
       /\ MapGet(om, f).contents # MapGet(tm, f).contents

\* What C5 promises of the repository T that merge leaves, for file f and
\* the tips o and t merged in repository S.
ConflictWritten(S, T, f, o, t) ==
    /\ f \in DOMAIN T.wd
    /\ T.wd[f] = "<<<<<<< HEAD\n" \o MapGet(S.objects[o].file_blob_map, f).contents
                     \o "=======\n" \o MapGet(S.objects[t].file_blob_map, f).contents
                     \o ">>>>>>>\n"
    /\ get_current_branch(T).commit \notin DOMAIN S.objects
    /\ CurrentCommit(T).parents = <<o, t>>

\* C5: if the two tips have one latest common ancestor, and a file tracked
\* there has been changed to X on the current branch and to a different Y on
\* the given branch, then after a merge that completes the working file is
\* exactly "<<<<<<< HEAD\n" X "=======\n" Y ">>>>>>>\n" and the new tip of the
\* current branch has the parents [previous tip, given tip].
C5_ConflictAtMergeBase ==
    LET S == Repo("local")
    IN \A n \in DOMAIN S.branches, o \in Orders(Paths), f \in Paths :
           LET A == get_current_branch(S)
               B == S.branches[n]
               res == merge(S, n, now, o)
           IN (/\ HasCurrent(S)
               /\ MergeCompleted(res)
               /\ \E l \in MergeBases(A.commit, B.commit) :
                      /\ MergeBases(A.commit, B.commit) = {l}
                      /\ BothModified(f, l, A.commit, B.commit))
              => ConflictWritten(S, res.S, f, A.commit, B.commit)

\* The paths the commit target tracks that are in the working directory of
\* S and that the current commit of S does not track.
UntrackedInTheWay(S, target) ==
    {f \in MapKeys(S.objects[target].file_blob_map) :
        f \in DOMAIN S.wd /\ ~MapHas(CurrentCommit(S).file_blob_map, f)}

\* The command failed on an untracked file and left the files in files alone.
RefusedUntracked(S, res, files) ==
    /\ res.msg = UntrackedFileConflict
    /\ \A f \in files : f \in DOMAIN res.S.wd /\ res.S.wd[f] = S.wd[f]

\* merge of branch n in S takes the three-way path: the stage is empty, n is
\* another branch, and the split point is neither of the two tips.
ThreeWay(S, n) ==
    /\ DOMAIN S.stage = {}
    /\ n \in DOMAIN S.branches
    /\ n # BranchName(get_current_branch(S))
    /\ latest_common_ancestor(S.objects, get_current_branch(S).commit,
                              S.branches[n].commit)
           \notin {NoCommit, get_current_branch(S).commit, S.branches[n].commit}

C6_CheckoutBranch(S) ==
    \A n \in DOMAIN S.branches \ {BranchName(get_current_branch(S))} :
        LET files == UntrackedInTheWay(S, S.branches[n].commit)
        IN files # {} => RefusedUntracked(S, checkout_branch(S, n), files)

C6_Reset(S) ==
    \A id \in DOMAIN S.commits :
        LET files == UntrackedInTheWay(S, id)
        IN files # {} => RefusedUntracked(S, reset(S, id), files)

C6_Merge(S) ==
    \A n \in DOMAIN S.branches, o \in Orders(Paths) :
        LET files == UntrackedInTheWay(S, S.branches[n].commit)
        IN (ThreeWay(S, n) /\ files # {})
           => RefusedUntracked(S, merge(S, n, now, o), files)

\* C6: in either repository, checkout_branch, reset and a three-way merge
\* fail with the untracked-file message whenever a path the target commit
\* tracks is in the working directory and untracked by the current commit,
\* and they leave the contents of that working file as they were.
C6_UntrackedInTheWay ==
    \A r \in Repos :
        HasCurrent(Repo(r))
        => /\ C6_CheckoutBranch(Repo(r))
           /\ C6_Reset(Repo(r))
           /\ C6_Merge(Repo(r))

\* C7: when branch b of the remote has a tip that is not in the history of
\* the local current tip, push of b fails with the pull-first message and
\* leaves the branches and the working files of the remote as they were,
\* whatever the local remote-tracking branch says.
C7_NonFastForward ==
    LET S == Repo("local")
    IN \A b \in RemoteBranchNames :
           (/\ RemoteName \in DOMAIN S.remotes
            /\ HasCurrent(S)
            /\ b \in DOMAIN branches[S.remotes[RemoteName]]
            /\ ~IsAncestor(branches[S.remotes[RemoteName]][b].commit,
                           get_current_branch(S).commit))
           => LET T == Repo(S.remotes[RemoteName])
                  res == push(S, T, RemoteName, b)
              IN /\ res.msg = NonFastForward
                 /\ res.S.branches = T.branches
                 /\ res.S.wd = T.wd

\* C8: after a successful push of b the remote has a branch named b whose
\* tip is the local current tip, and no other branch of the remote has been
\* created or moved, whether or not b was there before.
C8_PushMovesOnlyB ==
    LET S == Repo("local")
    IN \A b \in RemoteBranchNames :
           (RemoteName \in DOMAIN S.remotes /\ HasCurrent(S))
           => LET T == Repo(S.remotes[RemoteName])
                  res == push(S, T, RemoteName, b)
              IN res.msg = Ok
                 => /\ b \in DOMAIN res.S.branches
                    /\ res.S.branches[b].commit = get_current_branch(S).commit
                    /\ \A n \in DOMAIN res.S.branches \ {b} :
                           /\ n \in DOMAIN T.branches
                           /\ res.S.branches[n].commit = T.branches[n].commit

\* C9: after a successful fetch of b, every commit the tip of the remote's b
\* reaches is in the local commit store under its hash, every blob of those
\* commits is in the local blob store under the hash of its contents, and
\* the local branch <remote>/b is not current and points at the remote's tip.
C9_FetchCopies ==
    LET S == Repo("local")
    IN \A b \in RemoteBranchNames :
           (RemoteName \in DOMAIN S.remotes)
           => LET T == Repo(S.remotes[RemoteName])
                  res == fetch(S, T, RemoteName, b)
                  tip == T.branches[b].commit
                  tracking == RemoteName \o "/" \o b
              IN res.msg = Ok
                 => /\ \A c \in SeqElems(commit_history(objects, tip)) :
                          /\ c \in DOMAIN res.S.commits
                          /\ res.S.commits[c] = objects[c]
                          /\ \A i \in 1..Len(objects[c].file_blob_map) :
                                 LET blob == objects[c].file_blob_map[i]
                                 IN /\ BlobHash(blob) \in DOMAIN res.S.blobs
                                    /\ res.S.blobs[BlobHash(blob)].contents = blob.contents
                    /\ tracking \in DOMAIN res.S.branches
                    /\ ~res.S.branches[tracking].is_current
                    /\ res.S.branches[tracking].commit = tip

\* A file map as a function from its paths to their blobs.
MapAsFun(m) == [p \in MapKeys(m) |-> MapGet(m, p)]

\* The map C10 expects of the new commit: the previous tip's map with the
\* staged entries applied.
ExpectedMap(S) ==
    LET prev == CurrentCommit(S).file_blob_map
        set == {p \in DOMAIN S.stage : S.stage[p].diff # DELETED}
        deleted == {p \in DOMAIN S.stage : S.stage[p].diff = DELETED}
    IN [p \in (MapKeys(prev) \cup set) \ deleted |->
           IF p \in set THEN S.stage[p] ELSE MapGet(prev, p)]

\* C10: a commit that succeeds adds exactly one commit to the store; its
\* parents are [the previous tip], its message is the one given, its map is
\* the previous tip's map with every staged entry set and every staged
\* deletion removed; the current branch points at it and the stage is empty.
C10_CommitResult ==
    LET S == Repo("local")
    IN \A m \in Messages \cup {""}, o \in Orders(Paths) :
           LET res == commit(S, m, now, o)
               T == res.S
               new == get_current_branch(T).commit
           IN res.msg = Ok
              => /\ DOMAIN T.commits = DOMAIN S.commits \cup {new}
                 /\ new \notin DOMAIN S.commits
                 /\ \A h \in DOMAIN S.commits : T.commits[h] = S.commits[h]
                 /\ T.commits[new].parents = <<get_current_branch(S).commit>>
                 /\ T.commits[new].message = m
                 /\ MapAsFun(T.commits[new].file_blob_map) = ExpectedMap(S)
                 /\ T.current_branch = S.current_branch
                 /\ T.stage = EmptyMap

\* C10 witness: the tip was built by a commit that set a path its parent did
\* not track and removed one the parent tracked, and the stage is empty.
C10_Witness ==
    LET tip == commits["local"][branches["local"][current_branch["local"]].commit]
    IN /\ Len(tip.parents) = 1
       /\ stage["local"] = EmptyMap
       /\ MapKeys(objects[tip.parents[1]].file_blob_map) \ MapKeys(tip.file_blob_map) # {}
       /\ MapKeys(tip.file_blob_map) \ MapKeys(objects[tip.parents[1]].file_blob_map) # {}

-----------------------------------------------------------------------------
(* Refusals of commit.                                                     *)

\* C11: commit fails with 'No changes added to the commit.' when the stage
\* is empty, whatever the message (this is tested first), and with 'Please
\* enter a commit message.' when the stage is not empty and the message is
\* the empty string; in both cases the commit store, the blob store, the
\* stage and the branches are as before the call.
C11_CommitRefused ==
    LET S == Repo("local")
    IN \A m \in Messages \cup {""}, o \in Orders(Paths) :
           LET res == commit(S, m, now, o)
               T == res.S
               same == /\ T.commits = S.commits
                       /\ T.blobs = S.blobs
                       /\ T.stage = S.stage
                       /\ T.branches = S.branches
                       /\ T.current_branch = S.current_branch
           IN /\ DOMAIN S.stage = {}
                 => res.msg = "No changes added to the commit." /\ same
              /\ DOMAIN S.stage # {} /\ m = ""
                 => res.msg = "Please enter a commit message." /\ same

\* A commit has been made, a file is staged again, and commit with the empty
\* message is refused.
C11_Witness ==
    /\ Cardinality(DOMAIN commits["local"]) > 1
    /\ DOMAIN stage["local"] # {}
    /\ commit(Repo("local"), "", now, <<"a", "b">>).msg
           = "Please enter a commit message."

-----------------------------------------------------------------------------
(* The stage after add and remove.                                         *)

\* path is tracked by the current commit and the working file has the
\* tracked content.
UnchangedInWorkingDir(S, path) ==
    /\ HasCurrent(S)
    /\ MapHas(CurrentCommit(S).file_blob_map, path)
    /\ path \in DOMAIN S.wd
    /\ hash_contents(S.wd[path])
           = BlobHash(MapGet(CurrentCommit(S).file_blob_map, path))

\* C12: after add(path) on a path that the current commit tracks and whose
\* working content hashes to the tracked blob's hash, the stage holds no
\* entry for path, whether or not an entry for path was staged before the
\* call (a staged entry is removed).  Stated here for the calls where no
\* removal of path is staged; undoing a staged removal is the case of C14.
C12_AddUnchangedUnstages ==
    LET S == Repo("local")
    IN \A p \in Paths :
           /\ UnchangedInWorkingDir(S, p)
           /\ p \in DOMAIN S.stage => S.stage[p].diff # DELETED
           => /\ add(S, p).msg = Ok
              /\ p \notin DOMAIN add(S, p).S.stage

\* C13: add(path) on a path that already has a staged entry which is not
\* Deleted and whose contents differ from the working file replaces the
\* staged entry by one with the current working content (unless that content
\* is the tracked one, when the path is unstaged: C12), so that after add the
\* staged entry matches the working file.
C13_AddReplacesStaged ==
    LET S == Repo("local")
    IN \A p \in Paths :
           /\ p \in DOMAIN S.stage
           /\ S.stage[p].diff # DELETED
           /\ p \in DOMAIN S.wd
           /\ S.stage[p].contents # S.wd[p]
           /\ ~UnchangedInWorkingDir(S, p)
           => /\ add(S, p).msg = Ok
              /\ p \in DOMAIN add(S, p).S.stage
              /\ add(S, p).S.stage[p].contents = S.wd[p]

\* C14: add(path) on a path whose staged entry is Deleted, with the working
\* file present again with the same content, changes the entry's diff to
\* Added in place and keeps its contents: afterwards the stage holds exactly
\* the entries it held before, the one for path being Added, and nothing
\* else has changed.
C14_AddUndoesRemoval ==
    LET S == Repo("local")
    IN \A p \in Paths :
           /\ p \in DOMAIN S.stage
           /\ S.stage[p].diff = DELETED
           /\ p \in DOMAIN S.wd
           /\ S.wd[p] = S.stage[p].contents
           => LET res == add(S, p)
                  T == res.S
              IN /\ res.msg = Ok
                 /\ DOMAIN T.stage = DOMAIN S.stage
                 /\ T.stage[p] = Blob(p, S.stage[p].contents, ADDED)
                 /\ \A q \in DOMAIN S.stage \ {p} : T.stage[q] = S.stage[q]
                 /\ T.wd = S.wd
                 /\ T.commits = S.commits /\ T.branches = S.branches

\* A removal of a tracked path has been undone by add: the staged entry is
\* Added although the current commit tracks the path, and the working file
\* has the staged content.
C14_Witness ==
    \E p \in Paths :
        /\ p \in DOMAIN stage["local"]
        /\ stage["local"][p].diff = ADDED
        /\ MapHas(CurrentCommit(Repo("local")).file_blob_map, p)
        /\ p \in DOMAIN wd["local"]
        /\ wd["local"][p] = stage["local"][p].contents

\* path has a staged entry or is tracked by the current commit.
StagedOrTracked(S, path) ==
    \/ path \in DOMAIN S.stage
    \/ HasCurrent(S) /\ MapHas(CurrentCommit(S).file_blob_map, path)

\* C15: after a successful remove(path) on a path that is staged or tracked
\* and whose working file is present, the working file is gone and the stage
\* holds one entry for path, which is Deleted and whose contents are the
\* working file's content at the time of the call; an entry staged for path
\* before is gone.  The other staged entries and working files are as
\* before.
C15_RemoveStagesDeletion ==
    LET S == Repo("local")
    IN \A p \in Paths :
           LET res == remove(S, p)
               T == res.S
           IN StagedOrTracked(S, p) /\ p \in DOMAIN S.wd
              => /\ res.msg = Ok
                 /\ p \notin DOMAIN T.wd
                 /\ p \in DOMAIN T.stage
                 /\ T.stage[p] = Blob(p, S.wd[p], DELETED)
                 /\ \A q \in Paths \ {p} :
                        /\ q \in DOMAIN T.stage <=> q \in DOMAIN S.stage
                        /\ q \in DOMAIN S.stage => T.stage[q] = S.stage[q]
                        /\ q \in DOMAIN T.wd <=> q \in DOMAIN S.wd
                        /\ q \in DOMAIN S.wd => T.wd[q] = S.wd[q]

\* A removal is staged whose contents are not those of the tracked blob: the
\* working file had been edited (and possibly staged) before remove.
C15_Witness ==
    \E p \in Paths :
        /\ p \in DOMAIN stage["local"]
        /\ stage["local"][p].diff = DELETED
        /\ p \notin DOMAIN wd["local"]
        /\ MapHas(CurrentCommit(Repo("local")).file_blob_map, p)
        /\ stage["local"][p].contents
               # MapGet(CurrentCommit(Repo("local")).file_blob_map, p).contents

\* C16: remove(path) on a path that is tracked or staged and whose working
\* file is absent (for instance a second remove of the same path) completes
\* without error and leaves exactly one staged entry for path, which is
\* Deleted.
C16_RemoveMissingFile ==
    LET S == Repo("local")
    IN \A p \in Paths :
           StagedOrTracked(S, p) /\ p \notin DOMAIN S.wd
           => /\ remove(S, p).msg = Ok
              /\ p \in DOMAIN remove(S, p).S.stage
              /\ remove(S, p).S.stage[p].diff = DELETED

-----------------------------------------------------------------------------
(* The working directory after checkout_branch and reset.                  *)

\* The working directory of T holds the snapshot target_map, seen from a
\* repository that was at current_map: every path of the target has the
\* target blob's contents, and every path that only the former snapshot
\* tracked is absent.
Switched(T, target_map, current_map) ==
    /\ \A i \in 1..Len(target_map) :
           /\ target_map[i].name \in DOMAIN T.wd
           /\ T.wd[target_map[i].name] = target_map[i].contents
    /\ \A p \in MapKeys(current_map) \ MapKeys(target_map) : p \notin DOMAIN T.wd

\* C17: after a successful checkout_branch(name) the current branch is name;
\* every path tracked by the target tip has the target blob's contents in
\* the working directory; every path tracked by the former tip and not by
\* the target is absent; the stage is empty; the set of branches and every
\* branch's tip commit are as before.
C17_CheckoutBranch ==
    LET S == Repo("local")
    IN \A n \in BranchNames :
           LET res == checkout_branch(S, n)
               T == res.S
           IN res.msg = Ok
              => /\ T.current_branch = n
                 /\ BranchName(get_current_branch(T)) = n
                 /\ Switched(T, S.objects[S.branches[n].commit].file_blob_map,
                             CurrentCommit(S).file_blob_map)
                 /\ T.stage = EmptyMap
                 /\ DOMAIN T.branches = DOMAIN S.branches
                 /\ \A b \in DOMAIN S.branches :
                        T.branches[b].commit = S.branches[b].commit
                 /\ T.commits = S.commits

\* dev has been checked out from main: main's tip tracks b, which dev's tip
\* does not, and holds other contents of a; the working directory is dev's
\* snapshot.
C17_Witness ==
    LET S == Repo("local")
    IN /\ S.current_branch = "dev"
       /\ LET main_map == S.objects[S.branches["main"].commit].file_blob_map
              dev_map == S.objects[S.branches["dev"].commit].file_blob_map
          IN /\ MapHas(main_map, "b") /\ ~MapHas(dev_map, "b")
             /\ MapHas(main_map, "a") /\ MapHas(dev_map, "a")
             /\ MapGet(main_map, "a").contents # MapGet(dev_map, "a").contents
             /\ "b" \notin DOMAIN S.wd
             /\ "a" \in DOMAIN S.wd
             /\ S.wd["a"] = MapGet(dev_map, "a").contents
             /\ S.stage = EmptyMap

\* C18: after a successful reset(commit_id) the branch that was current is
\* still the current one and its tip is the target commit; every path
\* tracked by the target has the target blob's contents in the working
\* directory; every path tracked by the former tip and not by the target is
\* absent; the stage is empty; no other branch has changed.
C18_Reset ==
    LET S == Repo("local")
    IN \A id \in DOMAIN S.commits :
           LET res == reset(S, id)
               T == res.S
           IN res.msg = Ok
              => /\ T.current_branch = S.current_branch
                 /\ get_current_branch(T).commit = id
                 /\ Switched(T, S.commits[id].file_blob_map,
                             CurrentCommit(S).file_blob_map)
                 /\ T.stage = EmptyMap
                 /\ DOMAIN T.branches = DOMAIN S.branches
                 /\ \A b \in DOMAIN S.branches \ {S.current_branch} :
                        T.branches[b] = S.branches[b]
                 /\ T.commits = S.commits

\* main, the only branch, has been reset from its second commit to its
\* first: the second commit tracks b and other contents of a, and the
\* working directory is the first commit's snapshot.
C18_Witness ==
    LET S == Repo("local")
    IN /\ DOMAIN S.branches = {"main"}
       /\ \E c \in DOMAIN S.commits :
              /\ S.commits[c].parents = <<get_current_branch(S).commit>>
              /\ LET new_map == S.commits[c].file_blob_map
                     tip_map == CurrentCommit(S).file_blob_map
                 IN /\ MapHas(new_map, "b") /\ ~MapHas(tip_map, "b")
                    /\ MapHas(new_map, "a") /\ MapHas(tip_map, "a")
                    /\ MapGet(new_map, "a").contents # MapGet(tip_map, "a").contents
                    /\ "b" \notin DOMAIN S.wd
                    /\ "a" \in DOMAIN S.wd
                    /\ S.wd["a"] = MapGet(tip_map, "a").contents
                    /\ S.stage = EmptyMap

-----------------------------------------------------------------------------
(* The log.                                                                *)

\* C19: commit moves only the current branch: a successful commit leaves
\* the tip of every other branch as it was, so that checking such a branch
\* out after the commit and calling log lists exactly the entries that
\* branch's log had before the commit.
C19_CommitMovesCurrentOnly ==
    LET S == Repo("local")
    IN \A m \in Messages, o \in Orders(Paths) :
           LET res == commit(S, m, now, o)
               T == res.S
           IN res.msg = Ok
              => /\ get_current_branch(T).commit # get_current_branch(S).commit
                 /\ \A b \in DOMAIN S.branches \ {S.current_branch} :
                        /\ b \in DOMAIN T.branches
                        /\ T.branches[b].commit = S.branches[b].commit
                        /\ LET back == checkout_branch(T, b)
                           IN back.msg = Ok
                              => /\ log(back.S).msg = Ok
                                 /\ log(back.S).out
                                        = log_loop(S.objects, S.branches[b].commit)

\* Two commits have been made on dev since it left main: dev's log is main's
\* log with two entries in front.
C19_Witness ==
    LET S == Repo("local")
    IN /\ S.current_branch = "dev"
       /\ "main" \in DOMAIN S.branches
       /\ \E e1, e2 \in {format_commit(S.objects[c]) : c \in DOMAIN S.commits} :
              /\ e1.merge = <<>> /\ e2.merge = <<>>
              /\ log(S).out = <<e1, e2>> \o log_loop(S.objects, S.branches["main"].commit)

\* C20: log returns one entry per commit of the first-parent chain from the
\* current tip to the root, newest first, and ends with the root commit
\* 'initial commit'.  A successful commit puts one entry in front of the log,
\* and after init and n successful commits on one branch the log has n
\* entries that are not the root, followed by the root's.
C20_LogFirstParentChain ==
    LET S == Repo("local")
        out == log(S).out
        n == Len(out)
    IN /\ log(S).msg = Ok
       /\ n >= 1
       /\ out[1].commit = get_current_branch(S).commit
       /\ \A i \in 1..n : out[i] = format_commit(S.objects[out[i].commit])
       /\ \A i \in 1..(n - 1) :
              /\ S.objects[out[i].commit].parents # <<>>
              /\ out[i + 1].commit = S.objects[out[i].commit].parents[1]
              /\ out[i + 1].date < out[i].date
       /\ out[n] = format_commit(init_commit)
       /\ S.objects[out[n].commit].parents = <<>>
       /\ \A i \in 1..(n - 1) : out[i] # format_commit(init_commit)
       /\ DOMAIN S.branches = {"main"} => n = Cardinality(DOMAIN S.commits)
       /\ \A m \in Messages, o \in Orders(Paths) :
              LET res == commit(S, m, now, o)
              IN res.msg = Ok
                 => log(res.S).out
                        = <<format_commit(Commit(now, m, <<out[1].commit>>,
                                                 CurrentCommit(res.S).file_blob_map))>>
                              \o out

\* Three commits have been made on main, the only branch: the log has four
\* entries.
C20_Witness ==
    /\ DOMAIN branches["local"] = {"main"}
    /\ Len(log(Repo("local")).out) = 4
    /\ log(Repo("local")).out[4].message = "initial commit"

-----------------------------------------------------------------------------
(* Merge: refusals and the merge commit.                                   *)

\* A branch name that no command creates.
NoBranch == "none"

\* C21: merge checks its preconditions in this order and fails at the first
\* one violated: a non-empty stage gives 'You have uncommitted changes.'; a
\* missing target branch gives 'A branch with that name does not exist.'; a
\* target that is the current branch gives 'Cannot merge a branch with
\* itself.'; in each case the repository is as before the call.
C21_MergeRefused ==
    LET S == Repo("local")
    IN \A n \in BranchNames \cup {NoBranch}, o \in Orders(Paths) :
           LET res == merge(S, n, now, o)
           IN /\ DOMAIN S.stage # {}
                 => res.msg = "You have uncommitted changes." /\ res.S = S
              /\ DOMAIN S.stage = {} /\ n \notin DOMAIN S.branches
                 => res.msg = "A branch with that name does not exist." /\ res.S = S
              /\ DOMAIN S.stage = {} /\ n \in DOMAIN S.branches
                    /\ n = S.current_branch
                 => res.msg = "Cannot merge a branch with itself." /\ res.S = S

\* A file is staged and there is no branch dev: merge dev violates the first
\* two preconditions and reports the first.
C21_Witness ==
    /\ DOMAIN stage["local"] # {}
    /\ "dev" \notin DOMAIN branches["local"]
    /\ Cardinality(DOMAIN commits["local"]) > 1
    /\ merge(Repo("local"), "dev", now, <<"a", "b">>).msg
           = "You have uncommitted changes."

\* A three-way merge ran to its end: it made the merge commit, with or
\* without conflicts.
MergeCommitted(res) == res.msg \in {Ok, "Encountered a merge conflict."}

\* The split point merge computes for the current tip of S and branch n.
ComputedLca(S, n) ==
    latest_common_ancestor(S.objects, get_current_branch(S).commit,
                           S.branches[n].commit)

\* The repository as merge's two loops leave it, before merge_commit.
AfterMergeLoops(S, n) ==
    LET lca_map == S.objects[ComputedLca(S, n)].file_blob_map
        origin_map == CurrentCommit(S).file_blob_map
        target_id == S.branches[n].commit
        target_map == S.objects[target_id].file_blob_map
    IN merge_origin_loop(
           merge_target_loop([S |-> S, msg |-> Ok, conflicted |-> FALSE],
                             target_map, lca_map, origin_map, target_id, 1),
           origin_map, lca_map, target_map, target_id, 1).S

-----------------------------------------------------------------------------
(* The current branch and the blob store.                                  *)

\* C23: in every reachable state the current-branch link of each repository
\* resolves to a branch of its registry: remove_branch refuses the current
\* branch with 'Cannot remove the current branch.' and leaves the registry
\* as it is, and no other command deletes the branch that is current.
C23_CurrentBranchExists ==
    \A r \in Repos :
        LET S == Repo(r)
        IN /\ HasCurrent(S)
           /\ remove_branch(S, S.current_branch).msg = "Cannot remove the current branch."
           /\ remove_branch(S, S.current_branch).S = S

\* C24: the blob store is write-once: a record stored under a content hash
\* is under that hash, unchanged (path name, contents, diff tag), after
\* every step, also when the same content is staged and committed later
\* under another path or with another diff tag.
C24_BlobsWriteOnce ==
    [][\A r \in Repos : \A h \in DOMAIN blobs[r] :
           h \in DOMAIN blobs'[r] /\ blobs'[r][h] = blobs[r][h]]_vars

-----------------------------------------------------------------------------
(* Checking out one file of a commit.                                      *)

\* C25: checkout_commit(commit_id, path) fails with the untracked-file
\* message and leaves the working file as it is when the commit tracks path,
\* the working file of path exists and the current commit does not track
\* path.
C25_CheckoutCommitUntracked ==
    LET S == Repo("local")
    IN \A id \in DOMAIN S.commits, p \in Paths :
           (/\ MapHas(S.commits[id].file_blob_map, p)
            /\ p \in DOMAIN S.wd
            /\ ~MapHas(CurrentCommit(S).file_blob_map, p))
           => /\ checkout_commit(S, id, p).msg = UntrackedFileConflict
              /\ checkout_commit(S, id, p).S.wd = S.wd

-----------------------------------------------------------------------------
(* Status.                                                                 *)

\* C26: status lists a path under 'Modifications Not Staged For Commit' as
\* '(modified)' whenever the path has a staged entry that is not a removal
\* (Added or Modified) and the working file exists with a content other than
\* the staged one, and as '(deleted)' whenever the working file of such a
\* staged path is missing.
C26_StagedThenChanged ==
    LET S == Repo("local")
        listed == modified_status(S).out
    IN \A p \in DOMAIN S.stage :
           S.stage[p].diff \in {ADDED, MODIFIED}
           => /\ modified_status(S).msg = Ok
              /\ (p \in DOMAIN S.wd /\ S.wd[p] # S.stage[p].contents)
                 => p \in DOMAIN listed /\ listed[p] = MODIFIED
              /\ p \notin DOMAIN S.wd
                 => p \in DOMAIN listed /\ listed[p] = DELETED

-----------------------------------------------------------------------------
(* The three-way merge, file by file.                                      *)

\* C27: in a three-way merge the untracked-file check is applied to every
\* path of the target commit before anything is written: when merge fails
\* with the untracked-file message, no working file has been modified and
\* the stage is still empty.
C27_UntrackedCheckedFirst ==
    LET S == Repo("local")
    IN \A n \in BranchNames, o \in Orders(Paths) :
           LET res == merge(S, n, now, o)
           IN ThreeWay(S, n) /\ res.msg = UntrackedFileConflict
              => /\ res.S.wd = S.wd
                 /\ res.S.stage = EmptyMap

\* The merge commit that T's current branch points at records the conflict
\* text of the contents oc and tc for path f.
ConflictRecorded(T, f, oc, tc) ==
    /\ MapHas(CurrentCommit(T).file_blob_map, f)
    /\ MapGet(CurrentCommit(T).file_blob_map, f).contents
           = "<<<<<<< HEAD\n" \o oc \o "=======\n" \o tc \o ">>>>>>>\n"

\* C28: in a three-way merge that runs to its end, a path tracked at the
\* common ancestor and by both tips is handled as a both-modified conflict
\* exactly when the content hashes of both tips differ from the ancestor's
\* and from each other; when both branches changed the file to the same
\* content no conflict is reported and no conflict markers are written for
\* the path.
C28_BothModifiedExactly ==
    LET S == Repo("local")
    IN \A n \in BranchNames, o \in Orders(Paths), f \in Paths :
           LET res == merge(S, n, now, o)
               T == res.S
           IN ThreeWay(S, n) /\ MergeCommitted(res)
              => LET lm == S.objects[ComputedLca(S, n)].file_blob_map
                     om == CurrentCommit(S).file_blob_map
                     tm == S.objects[S.branches[n].commit].file_blob_map
                 IN MapHas(lm, f) /\ MapHas(om, f) /\ MapHas(tm, f)
                    => LET hl == BlobHash(MapGet(lm, f))
                           ho == BlobHash(MapGet(om, f))
                           ht == BlobHash(MapGet(tm, f))
                           conflict == ConflictRecorded(T, f, MapGet(om, f).contents,
                                                        MapGet(tm, f).contents)
                       IN /\ conflict <=> (ho # hl /\ ht # hl /\ ho # ht)
                          /\ (ho = ht /\ ho # hl)
                             => /\ f \in DOMAIN S.wd => T.wd[f] = S.wd[f]
                                /\ MapKeys(om) = {f} /\ MapKeys(tm) = {f}
                                   => res.msg = Ok


\* C29: in a three-way merge that runs to its end, a path whose content hash
\* on the current tip equals its hash at the common ancestor while the target
\* tip's hash differs is merged without a conflict: the working file and the
\* merge commit's entry for the path both hold the target's content, whatever
\* diff tag the current tip's blob carries.
C29_TakesTargetChange ==
    LET S == Repo("local")
    IN \A n \in BranchNames, o \in Orders(Paths), f \in Paths :
           LET res == merge(S, n, now, o)
               T == res.S
           IN ThreeWay(S, n) /\ MergeCommitted(res)
              => LET lm == S.objects[ComputedLca(S, n)].file_blob_map
                     om == CurrentCommit(S).file_blob_map
                     tm == S.objects[S.branches[n].commit].file_blob_map
                 IN /\ MapHas(lm, f) /\ MapHas(om, f) /\ MapHas(tm, f)
                    /\ BlobHash(MapGet(om, f)) = BlobHash(MapGet(lm, f))
                    /\ BlobHash(MapGet(tm, f)) # BlobHash(MapGet(lm, f))
                    => /\ ~ConflictRecorded(T, f, MapGet(om, f).contents,
                                            MapGet(tm, f).contents)
                       /\ f \in DOMAIN T.wd
                       /\ T.wd[f] = MapGet(tm, f).contents
                       /\ MapHas(CurrentCommit(T).file_blob_map, f)
                       /\ MapGet(CurrentCommit(T).file_blob_map, f).contents
                              = MapGet(tm, f).contents
                       /\ MapKeys(om) = {f} /\ MapKeys(tm) = {f} => res.msg = Ok


\* C30: in a three-way merge that runs to its end, a path tracked at the
\* common ancestor, with the same content hash on the current tip, that the
\* target tip does not track is deleted from the working directory and is
\* absent from the merge commit's map; the path gets no conflict text, and
\* when the ancestor and the target track no other path the merge reports no
\* conflict.
C30_TakesTargetDeletion ==
    LET S == Repo("local")
    IN \A n \in BranchNames, o \in Orders(Paths), f \in Paths :
           LET res == merge(S, n, now, o)
               T == res.S
           IN ThreeWay(S, n) /\ MergeCommitted(res)
              => LET lm == S.objects[ComputedLca(S, n)].file_blob_map
                     om == CurrentCommit(S).file_blob_map
                     tm == S.objects[S.branches[n].commit].file_blob_map
                 IN /\ MapHas(lm, f) /\ MapHas(om, f) /\ ~MapHas(tm, f)
                    /\ BlobHash(MapGet(om, f)) = BlobHash(MapGet(lm, f))
                    => /\ f \notin DOMAIN T.wd
                       /\ ~MapHas(CurrentCommit(T).file_blob_map, f)
                       /\ T.stage = EmptyMap
                       /\ (MapKeys(tm) \cup MapKeys(lm)) \ {f} = {} => res.msg = Ok

\* The current tip is a merge commit made without a conflict: the first
\* parent tracks a with the contents a had at the parents' common ancestor,
\* the second parent does not track a, and neither the tip nor the working
\* directory holds a.
C30_Witness ==
    LET S == Repo("local")
        tip == CurrentCommit(S)
    IN /\ Len(tip.parents) = 2
       /\ LET first == S.objects[tip.parents[1]]
              second == S.objects[tip.parents[2]]
              lca == latest_common_ancestor(S.objects, tip.parents[1], tip.parents[2])
          IN /\ lca # NoCommit
             /\ lca \notin {tip.parents[1], tip.parents[2]}
             /\ MapHas(S.objects[lca].file_blob_map, "a")
             /\ MapHas(first.file_blob_map, "a")
             /\ BlobHash(MapGet(first.file_blob_map, "a"))
                    = BlobHash(MapGet(S.objects[lca].file_blob_map, "a"))
             /\ ~MapHas(second.file_blob_map, "a")
       /\ ~MapHas(tip.file_blob_map, "a")
       /\ "a" \notin DOMAIN S.wd


\* C31: in a three-way merge that runs to its end, a path of the common
\* ancestor that one side changed and the other side deleted is a conflict
\* whose body has the placeholder "\n" on the deleted side: the working file
\* is '<<<<<<< HEAD\n' '\n' '=======\n' target '>>>>>>>\n' when the current
\* branch deleted the path, and '<<<<<<< HEAD\n' origin '=======\n' '\n'
\* '>>>>>>>\n' when the target branch deleted it; the conflict is reported.
C31_DeletedSidePlaceholder ==
    LET S == Repo("local")
    IN \A n \in BranchNames, o \in Orders(Paths), f \in Paths :
           LET res == merge(S, n, now, o)
               T == res.S
           IN ThreeWay(S, n) /\ MergeCommitted(res)
              => LET lm == S.objects[ComputedLca(S, n)].file_blob_map
                     om == CurrentCommit(S).file_blob_map
                     tm == S.objects[S.branches[n].commit].file_blob_map
                 IN /\ (/\ MapHas(lm, f) /\ ~MapHas(om, f) /\ MapHas(tm, f)
                        /\ BlobHash(MapGet(tm, f)) # BlobHash(MapGet(lm, f)))
                       => /\ f \in DOMAIN T.wd
                          /\ T.wd[f] = "<<<<<<< HEAD\n" \o "\n" \o "=======\n"
                                          \o MapGet(tm, f).contents \o ">>>>>>>\n"
                          /\ res.msg = "Encountered a merge conflict."
                    /\ (/\ MapHas(lm, f) /\ MapHas(om, f) /\ ~MapHas(tm, f)
                        /\ BlobHash(MapGet(om, f)) # BlobHash(MapGet(lm, f)))
                       => /\ f \in DOMAIN T.wd
                          /\ T.wd[f] = "<<<<<<< HEAD\n" \o MapGet(om, f).contents
                                          \o "=======\n" \o "\n" \o ">>>>>>>\n"
                          /\ res.msg = "Encountered a merge conflict."

\* The current tip is a merge commit whose first parent had deleted a and
\* whose second parent had changed it; the working file holds the conflict
\* with the placeholder on the current side.
C31_Witness ==
    LET S == Repo("local")
        tip == CurrentCommit(S)
    IN /\ Len(tip.parents) = 2
       /\ ~MapHas(S.objects[tip.parents[1]].file_blob_map, "a")
       /\ MapHas(S.objects[tip.parents[2]].file_blob_map, "a")
       /\ "a" \in DOMAIN S.wd
       /\ S.wd["a"] = "<<<<<<< HEAD\n\n=======\ny\n>>>>>>>\n"


\* What merge's two loops yield for target branch n: the repository, the
\* message of the step that stopped them (Ok when none did) and whether a
\* conflict was met on the way.
MergeLoops(S, n) ==
    LET lca_map == S.objects[ComputedLca(S, n)].file_blob_map
        origin_map == CurrentCommit(S).file_blob_map
        target_id == S.branches[n].commit
        target_map == S.objects[target_id].file_blob_map
    IN merge_origin_loop(
           merge_target_loop([S |-> S, msg |-> Ok, conflicted |-> FALSE],
                             target_map, lca_map, origin_map, target_id, 1),
           origin_map, lca_map, target_map, target_id, 1)

\* The conflict bodies that a merge of the maps om and tm can write for path f.
ConflictTexts(om, tm, f) ==
    LET side(m) == {"\n"} \cup (IF MapHas(m, f) THEN {MapGet(m, f).contents} ELSE {})
    IN {"<<<<<<< HEAD\n" \o oc \o "=======\n" \o tc \o ">>>>>>>\n" :
            oc \in side(om), tc \in side(tm)}

\* C32: a three-way merge that meets a conflict of any kind still handles
\* every path and completes: one new commit is stored, the current branch
\* points at it, the stage is empty, the new commit's map holds the conflict
\* text of every path staged with one, and the outcome is the report
\* 'Encountered a merge conflict.', not an error.
C32_ConflictsDoNotAbort ==
    LET S == Repo("local")
    IN \A n \in BranchNames, o \in Orders(Paths) :
           LET res == merge(S, n, now, o)
               T == res.S
           IN ThreeWay(S, n) /\ MergeLoops(S, n).conflicted
              => LET L == MergeLoops(S, n).S
                     om == CurrentCommit(S).file_blob_map
                     tm == S.objects[S.branches[n].commit].file_blob_map
                     new == get_current_branch(T).commit
                 IN /\ res.msg = "Encountered a merge conflict."
                    /\ new \notin DOMAIN S.commits
                    /\ DOMAIN T.commits = DOMAIN S.commits \cup {new}
                    /\ T.current_branch = S.current_branch
                    /\ T.stage = EmptyMap
                    /\ \A f \in DOMAIN L.stage :
                           L.stage[f].contents \in ConflictTexts(om, tm, f)
                           => /\ MapHas(T.commits[new].file_blob_map, f)
                              /\ MapGet(T.commits[new].file_blob_map, f).contents
                                     = L.stage[f].contents


(* The history engine. *)

\* The commits that parents links lead to from the commits of set, set included.
RECURSIVE ReachFrom(_, _)
ReachFrom(objs, set) ==
    LET next == set \cup UNION {SeqElems(objs[c].parents) : c \in set}
    IN IF next = set THEN set ELSE ReachFrom(objs, next)

\* The least number of parents links from the commits of frontier to d, plus k.
RECURSIVE LinksTo(_, _, _, _)
LinksTo(objs, frontier, d, k) ==
    IF d \in frontier
    THEN k
    ELSE LinksTo(objs, UNION {SeqElems(objs[c].parents) : c \in frontier}, d, k + 1)

\* The commits without parents.
Roots(objs) == {c \in DOMAIN objs : objs[c].parents = <<>>}

\* C33: commit_history(c) lists every commit that parents links lead to from
\* c exactly once, c first, in breadth-first order (never a commit before one
\* that is fewer links away from c), and the root commit last; for every
\* commit graph the commands build, two-parent merge commits included.
C33_HistoryBreadthFirst ==
    \A c \in DOMAIN objects :
        LET h == commit_history(objects, c)
        IN /\ h[1] = c
           /\ SeqElems(h) = ReachFrom(objects, {c})
           /\ \A i, j \in 1..Len(h) : i # j => h[i] # h[j]
           /\ \A i, j \in 1..Len(h) :
                  i < j => LinksTo(objects, {c}, h[i], 0) <= LinksTo(objects, {c}, h[j], 0)
           /\ h[Len(h)] \in Roots(objects)


\* No merge commit in the history of c.
MergeFree(objs, c) == \A d \in ReachFrom(objs, {c}) : Len(objs[d].parents) <= 1

\* C34: for two commits with merge-free histories (two chains from the root
\* that share a prefix, or one chain that extends the other)
\* latest_common_ancestor returns the last commit of the longest common
\* rooted prefix, which is the most recent commit reachable from both: every
\* commit reachable from both is reachable from it.
C34_LinearAncestor ==
    \A o, t \in DOMAIN objects :
        MergeFree(objects, o) /\ MergeFree(objects, t)
        => LET lca == latest_common_ancestor(objects, o, t)
               common == ReachFrom(objects, {o}) \cap ReachFrom(objects, {t})
           IN /\ lca \in common
              /\ \A d \in common :
                     /\ d \in ReachFrom(objects, {lca})
                     /\ Cardinality(ReachFrom(objects, {d}))
                            <= Cardinality(ReachFrom(objects, {lca}))

\* Two branches whose merge-free histories part after a commit that is not
\* the root: each tip has a commit of its own above the shared one.
C34_Witness ==
    LET S == Repo("local")
    IN \E m, n \in DOMAIN S.branches :
           LET o == S.branches[m].commit
               t == S.branches[n].commit
               lca == latest_common_ancestor(objects, o, t)
           IN /\ MergeFree(objects, o) /\ MergeFree(objects, t)
              /\ lca \notin {NoCommit, o, t}
              /\ objects[lca].parents # <<>>


(* Remote synchronisation. *)

\* C35: after a successful push to a branch b that the remote already has,
\* every commit reachable from the local tip and not from the remote's
\* previous tip of b is in the remote's commit store under its hash.
C35_PushCopiesNewCommits ==
    LET S == Repo("local")
    IN \A b \in RemoteBranchNames :
           (RemoteName \in DOMAIN S.remotes /\ HasCurrent(S))
           => LET T == Repo(S.remotes[RemoteName])
                  res == push(S, T, RemoteName, b)
              IN b \in DOMAIN T.branches /\ res.msg = Ok
                 => \A c \in ReachFrom(objects, {get_current_branch(S).commit})
                               \ ReachFrom(objects, {T.branches[b].commit}) :
                        /\ c \in DOMAIN res.S.commits
                        /\ res.S.commits[c] = objects[c]


(* Commit once more. *)

\* C36: when commit is interrupted after it has handled and unlinked some
\* but not all staged entries, before the commit object is written, running
\* commit again with the same message yields a commit whose map equals the
\* map of the commit that the uninterrupted run would have made.
C36_RerunAfterInterrupt ==
    LET S == Repo("local")
    IN \A m \in Messages, o \in Orders(Paths) :
           \A k \in 1..(Len(StageOrder(S, o)) - 1) :
               LET whole == commit(S, m, now, o)
                   rerun == commit(commit_interrupted(S, o, k), m, now, o)
               IN whole.msg = Ok
                  => /\ rerun.msg = Ok
                     /\ MapAsFun(CurrentCommit(rerun.S).file_blob_map)
                            = MapAsFun(CurrentCommit(whole.S).file_blob_map)


\* C37: commit succeeds whenever the stage and the message are non-empty,
\* for every stage the commands produce, a staged removal of a path the
\* current commit does not track included: one commit is stored, the current
\* branch points at it and the stage is empty.
C37_CommitSucceeds ==
    LET S == Repo("local")
    IN \A m \in Messages, o \in Orders(Paths) :
           LET res == commit(S, m, now, o)
               T == res.S
           IN DOMAIN S.stage # {} /\ m # ""
              => /\ res.msg = Ok
                 /\ DOMAIN T.commits = DOMAIN S.commits \cup {get_current_branch(T).commit}
                 /\ get_current_branch(T).commit \notin DOMAIN S.commits
                 /\ T.current_branch = S.current_branch
                 /\ T.stage = EmptyMap


(* Merge and the working directory. *)

\* The stage of S is empty and every path of the current tip has a working
\* file with the tracked contents.
CleanWorkingDir(S) ==
    /\ DOMAIN S.stage = {}
    /\ \A i \in 1..Len(CurrentCommit(S).file_blob_map) :
           LET blob == CurrentCommit(S).file_blob_map[i]
           IN blob.name \in DOMAIN S.wd /\ S.wd[blob.name] = blob.contents

\* C38: a merge that starts from an empty stage and working files equal to
\* the current tip and that completes (ancestor, fast-forward or three-way,
\* with or without conflicts) ends with a working file equal to the
\* committed blob for every path of the new current tip, and without a
\* working file for every path that the old tip tracked and the new one
\* does not.
C38_MergeLeavesTipCheckedOut ==
    LET S == Repo("local")
    IN \A n \in DOMAIN S.branches, o \in Orders(Paths) :
           LET res == merge(S, n, now, o)
               T == res.S
           IN CleanWorkingDir(S)
              /\ res.msg \in {Ok, "Encountered a merge conflict.",
                              "Current branch fast-forwarded.",
                              "Given branch is an ancestor of the current branch."}
              => /\ \A i \in 1..Len(CurrentCommit(T).file_blob_map) :
                        LET blob == CurrentCommit(T).file_blob_map[i]
                        IN blob.name \in DOMAIN T.wd /\ T.wd[blob.name] = blob.contents
                 /\ \A p \in MapKeys(CurrentCommit(S).file_blob_map)
                              \ MapKeys(CurrentCommit(T).file_blob_map) :
                        p \notin DOMAIN T.wd


(* Switching snapshots. *)

C40_AncestorOfBothTips ==
    LET S == Repo("local")
    IN \A m, n \in DOMAIN S.branches :
           LET o == S.branches[m].commit
               t == S.branches[n].commit
               lca == latest_common_ancestor(objects, o, t)
           IN /\ lca # NoCommit
              /\ lca \in ReachFrom(objects, {o}) \cap ReachFrom(objects, {t})

====
